---- MODULE Spec2Model ----
(***************************************************************************)
(* Model of the research orchestration engine                              *)
(* (src/src/workflows/research_workflow.py): one run of                    *)
(* ResearchWorkflow.run_research over the LangGraph state graph built by   *)
(* build_workflow.  The fields of the ResearchState dict are the variables *)
(* papers .. progress below; the position in the graph is pc.              *)
(*                                                                         *)
(* Conventions.  A paper id / url is an integer, 0 standing for the empty  *)
(* string "".  A relevance score is the score times 10 (0.8 is 8).  A     *)
(* Python dict is a function whose DOMAIN is its key set.  The graph is    *)
(* compiled without a checkpointer, so the state dict handed from node to  *)
(* node shares its nested objects: an in-place update of                   *)
(* state["metadata"] made by a router is seen by the following nodes.      *)
(***************************************************************************)
EXTENDS Integers, Sequences, FiniteSets, TLC

VARIABLES
    pc,                      \* next graph node / router to run, or run_research position
    config_max,              \* config.max_papers_per_search
    vector_store,            \* ranked matches the store holds for the query
    progress_callback,       \* "None" or "sink"
    docs_with_scores,        \* what the store returned to check_existing_docs_node
    papers,                  \* state["papers"]
    web_extracted_contents,  \* state["web_extracted_contents"]
    synthesis_result,        \* state["synthesis_result"]
    knowledge_graph_updated, \* state["knowledge_graph_updated"]
    current_step,            \* state["current_step"]
    errors,                  \* state["errors"]
    metadata,                \* state["metadata"]
    skip_discovery,          \* state["skip_discovery"]
    progress,                \* state["progress"]
    calls,                   \* invocations of the progress callback, in order
    stages,                  \* graph nodes executed so far, in order
    last_route,              \* value returned by the last router call
    synth_call,              \* arguments of the last synthesize_research call
    indexed,                 \* urls handed to vector_store.add_document, in order
    faults,                  \* exceptions the collaborators have raised so far
    result,                  \* what run_research handed to its caller
    sources,                 \* what arXiv and Google Scholar hold for the query
    all_papers,              \* all_papers of search_papers
    search_attempts,         \* search_attempts of search_papers
    round,                   \* the last search round: its search_count, its sleep, the
                             \* adapters' budgets, its batch and whether it raised
    adapter_failures,        \* rounds in which each adapter task failed
    args,                    \* arguments of a direct call of a method or an endpoint
    retval,                  \* what that call returned or raised
    request_status,          \* request_status of main.py: request id -> status dict
    tasks,                   \* position of each background task / concurrent run
    agent_session,           \* self.session of the shared DiscoveryAgent and PDFProcessor
    client_sessions          \* the aiohttp sessions created so far: who opened and
                             \* who closed each

vars == << pc, config_max, vector_store, progress_callback,
           docs_with_scores, papers,
           web_extracted_contents, synthesis_result, knowledge_graph_updated,
           current_step, errors, metadata, skip_discovery, progress, calls,
           stages, last_route, synth_call, indexed, faults, result,
           sources, all_papers, search_attempts, round, adapter_failures,
           args, retval, request_status, tasks, agent_session,
           client_sessions >>

\* A direct call of one method of the DiscoveryAgent
call_vars == << args, retval >>

\* The process-wide objects of main.py: the request registry, the background
\* tasks, and the sessions of the agents of the one workflow instance
server_vars == << request_status, tasks, agent_session, client_sessions >>

\* The environment and the locals of DiscoveryAgent.search_papers
search_vars == << sources, all_papers, search_attempts, round, adapter_failures >>

\* The fields of the ResearchState dict (what a node receives and returns).
state == << papers, web_extracted_contents, synthesis_result,
            knowledge_graph_updated, current_step, errors, metadata,
            skip_discovery, progress >>

-----------------------------------------------------------------------------
(* Bounds of the model *)

\* longest list of papers one discovery call returns
MaxDiscovered == 1

\* exceptions the collaborators (store, discovery, extractor, indexer,
\* synthesis agent, progress sink) raise in one run where the code handles
\* them; a raising sink inside update_progress changes nothing and is not
\* counted
MaxFaults == 2

\* longest stream of results one source holds for the query
MaxStream == 2

\* longest list of papers handed to a direct call of an agent method
MaxBatch == 3

-----------------------------------------------------------------------------
(* Python helpers *)

None == [kind |-> "None"]

\* dict.get(k, default)
Get(d, k, default) == IF k \in DOMAIN d THEN d[k] ELSE default

\* d[k] = v
Put(d, k, v) == [x \in (DOMAIN d) \cup {k} |-> IF x = k THEN v ELSE d[x]]

Min(a, b) == IF a < b THEN a ELSE b

\* n copies of x
Repeat(x, n) == [i \in 1..n |-> x]

-----------------------------------------------------------------------------
(* Program constants *)

\* progress_steps with the last stage weighted below 100
progress_steps_lowQuality ==
    [ checking_existing_docs   |-> 10,
      discovering_papers       |-> 25,
      extracting_content       |-> 45,
      updating_knowledge_graph |-> 60,
      synthesizing_results     |-> 80,
      quality_check            |-> 90 ]

\* self.progress_steps
progress_steps ==
    [ checking_existing_docs   |-> 10,
      discovering_papers       |-> 25,
      extracting_content       |-> 45,
      updating_knowledge_graph |-> 60,
      synthesizing_results     |-> 80,
      quality_check            |-> 100 ]

\* k of the similarity search issued by check_existing_docs_node
SearchK == 50

\* relevance threshold (score > 0.8), times 10
RelevanceThreshold == 8

\* margin added to max_papers_per_search in the skip decision
SkipMargin == 10

\* low-quality threshold of should_continue
QualityThreshold == 50

\* a retry limit one higher
MaxRetries_oneMore == 2 + 1

\* retry limit of should_continue
MaxRetries == 2

\* limit on successful extractions of one Extract stage
MaxExtractions == 100

\* config.max_papers_per_search as set by Config.__init__
DefaultMaxPapers == 10

-----------------------------------------------------------------------------
(* The graph of build_workflow *)

EntryPoint == "check_existing_docs"

\* EdgeTarget with the edge out of discover_papers bypassing extraction
EdgeTarget_skipExtract(node) ==
    CASE node = "discover_papers"        -> "update_knowledge_graph"
      [] node = "extract_content"        -> "update_knowledge_graph"
      [] node = "update_knowledge_graph" -> "synthesize_results"
      [] node = "synthesize_results"     -> "quality_check"

\* workflow.add_edge(source, target)
EdgeTarget(node) ==
    CASE node = "discover_papers"        -> "extract_content"
      [] node = "extract_content"        -> "update_knowledge_graph"
      [] node = "update_knowledge_graph" -> "synthesize_results"
      [] node = "synthesize_results"     -> "quality_check"

\* add_conditional_edges("quality_check", should_continue, {...})
ContinueEdges(route) ==
    CASE route = "continue" -> "discover_papers"
      [] route = "end"      -> "END"

\* add_conditional_edges("check_existing_docs", should_discover_papers, {...})
DiscoverEdges(route) ==
    CASE route = "discover"          -> "discover_papers"
      [] route = "skip_to_synthesis" -> "synthesize_results"

\* used_existing_docs looking up a key the metadata never holds
used_existing_docs_keyMiss(default) == Get(metadata, "used_existing_doc", default)

\* state.get("metadata", {}).get("used_existing_docs", default)
used_existing_docs(default) == Get(metadata, "used_existing_docs", default)

-----------------------------------------------------------------------------
(* Progress reporting *)

\* await state["progress_callback"](p, step): the invocation is recorded
\* whether or not the callback raises.
Report(log, p, step) ==
    IF progress_callback = "None" THEN log
    ELSE Append(log, [progress |-> p, step |-> step])

\* update_progress: sets state["progress"]; a raising callback is swallowed.
update_progress(step) ==
    /\ progress' = Get(progress_steps, step, progress)
    /\ calls' = Report(calls, Get(progress_steps, step, progress), step)

-----------------------------------------------------------------------------
(* CheckExisting *)

\* VectorStoreManager.similarity_search_with_scores: the top k matches, or
\* [] when the underlying search raises.
similarity_search_with_scores(store, k, raises) ==
    IF raises THEN << >> ELSE SubSeq(store, 1, Min(k, Len(store)))

\* relevant_docs = [doc for doc, score in docs_with_scores if score > 0.8]
relevant_docs(docs) ==
    SelectSeq(docs, LAMBDA d : d.score > RelevanceThreshold)

\* the paper_dict list built from the relevant docs
existing_papers(docs) ==
    [i \in 1..Len(docs) |-> [url |-> docs[i].paper_id, kind |-> "existing"]]

\* len(set(paper.get("url", "") for paper in existing_papers if paper.get("url")))
unique_papers_count(ps) ==
    Cardinality({ ps[i].url : i \in {j \in 1..Len(ps) : ps[j].url # 0} })

\* SkipDecision with a strict comparison
SkipDecision_strict(count, max_papers) == count > max_papers + SkipMargin

\* unique_papers_count >= int(self.config.max_papers_per_search) + 10
SkipDecision(count, max_papers) == count >= max_papers + SkipMargin

check_existing_docs_node ==
    /\ pc = "check_existing_docs"
    /\ current_step' = "checking_existing_docs"
    /\ update_progress("checking_existing_docs")
    /\ \E outcome \in {"ok", "search_error", "raise"} :
          /\ outcome # "ok" => faults < MaxFaults
          /\ faults' = IF outcome = "ok" THEN faults ELSE faults + 1
          /\ IF outcome = "raise"
             THEN /\ docs_with_scores' =
                        similarity_search_with_scores(vector_store, SearchK, FALSE)
                  /\ errors' = Append(errors, "Error in check_existing_docs_node")
                  /\ skip_discovery' = FALSE
                  /\ UNCHANGED << papers, metadata >>
             ELSE LET docs  == similarity_search_with_scores(
                                   vector_store, SearchK, outcome = "search_error")
                      found == existing_papers(relevant_docs(docs))
                      count == unique_papers_count(found)
                  IN  /\ docs_with_scores' = docs
                      /\ skip_discovery' = SkipDecision(count, config_max)
                      /\ IF skip_discovery'
                         THEN /\ papers' = found
                              /\ metadata' = Put(Put(metadata, "used_existing_docs", TRUE),
                                                 "papers_found", count)
                         ELSE /\ papers' = papers
                              /\ metadata' = Put(metadata, "used_existing_docs", FALSE)
                      /\ errors' = errors
    /\ stages' = Append(stages, "check_existing_docs")
    /\ pc' = "should_discover_papers"
    /\ UNCHANGED << server_vars, call_vars, search_vars, config_max, vector_store, progress_callback,
                    web_extracted_contents, synthesis_result,
                    knowledge_graph_updated, last_route, synth_call, indexed,
                    result >>

should_discover_papers ==
    /\ pc = "should_discover_papers"
    /\ last_route' = IF skip_discovery THEN "skip_to_synthesis" ELSE "discover"
    /\ pc' = DiscoverEdges(last_route')
    /\ UNCHANGED << server_vars, call_vars, search_vars, faults, config_max, vector_store, progress_callback, docs_with_scores,
                    papers,
                    web_extracted_contents, synthesis_result,
                    knowledge_graph_updated, current_step, errors, metadata,
                    skip_discovery, progress, calls, stages, synth_call,
                    indexed, result >>

-----------------------------------------------------------------------------
(* Discover *)

\* urls a discovery call can return: "" and one fresh url per list position
DiscoverableUrls == {0} \cup {100 + i : i \in 1..MaxDiscovered}

\* Lists search_papers can return: pairwise distinct urls (search_papers
\* appends a paper only if its url is not yet accumulated); the fresh urls
\* are numbered in order of appearance.
DiscoveredLists ==
    { s \in UNION { [1..n -> DiscoverableUrls] : n \in 0..MaxDiscovered } :
        /\ \A i, j \in DOMAIN s : i # j => s[i] # s[j]
        /\ \A i \in DOMAIN s :
              s[i] # 0 => s[i] = 100 + Cardinality({j \in 1..i : s[j] # 0}) }

\* serializable_papers: asdict(paper) for each paper found
serializable_papers(urls) ==
    [i \in 1..Len(urls) |-> [url |-> urls[i], kind |-> "paper"]]

discover_papers_node ==
    /\ pc = "discover_papers"
    /\ current_step' = "discovering_papers"
    /\ update_progress("discovering_papers")
    /\ \/ \E found \in DiscoveredLists :
             /\ web_extracted_contents' = serializable_papers(found)
             /\ errors' = errors
             /\ faults' = faults
       \/ /\ faults < MaxFaults
          /\ faults' = faults + 1
          /\ errors' = Append(errors, "Error in discover_papers_node")
          /\ web_extracted_contents' = web_extracted_contents
    /\ stages' = Append(stages, "discover_papers")
    /\ pc' = EdgeTarget("discover_papers")
    /\ UNCHANGED << server_vars, call_vars, search_vars, config_max, vector_store, progress_callback, docs_with_scores,
                    papers,
                    synthesis_result, knowledge_graph_updated, metadata,
                    skip_discovery, last_route, synth_call, indexed, result >>

-----------------------------------------------------------------------------
(* DiscoveryAgent (src/src/agents/discovery_agent.py) *)

\* A str is a sequence of one-character strings.  A Paper is a record of its
\* fields title, url, doi, citations, publication_date and source; url and
\* doi are integers with 0 for "" and None (both are falsy), a
\* publication_date is None or a datetime [year, tzinfo].

ascii_uppercase ==
    << "A", "B", "C", "D", "E", "F", "G", "H", "I", "J", "K", "L", "M" >>
    \o << "N", "O", "P", "Q", "R", "S", "T", "U", "V", "W", "X", "Y", "Z" >>

ascii_lowercase ==
    << "a", "b", "c", "d", "e", "f", "g", "h", "i", "j", "k", "l", "m" >>
    \o << "n", "o", "p", "q", "r", "s", "t", "u", "v", "w", "x", "y", "z" >>

digits == << "0", "1", "2", "3", "4", "5", "6", "7", "8", "9" >>

\* the whitespace characters of str.isspace
whitespace == {" ", "\t", "\n"}

\* the characters of str.isalnum
alnum ==
    { ascii_uppercase[i] : i \in DOMAIN ascii_uppercase }
       \cup { ascii_lowercase[i] : i \in DOMAIN ascii_lowercase }
       \cup { digits[i] : i \in DOMAIN digits }

\* str.isspace for one character
isspace(c) == c \in whitespace

\* str.isalnum for one character
isalnum(c) == c \in alnum

\* str.lower of the upper-case letters
lowercase ==
    [ c \in { ascii_uppercase[i] : i \in DOMAIN ascii_uppercase } |->
        ascii_lowercase[CHOOSE k \in DOMAIN ascii_uppercase : ascii_uppercase[k] = c] ]

\* str.lower
lower(s) ==
    [i \in 1..Len(s) |-> IF s[i] \in DOMAIN lowercase THEN lowercase[s[i]] ELSE s[i]]

\* str.strip: leading and trailing whitespace removed
strip(s) ==
    LET keep == {i \in 1..Len(s) : ~isspace(s[i])}
    IN  IF keep = {} THEN << >>
        ELSE SubSeq(s, CHOOSE i \in keep : \A j \in keep : i <= j,
                       CHOOSE i \in keep : \A j \in keep : i >= j)

\* normalized_title of deduplicate_papers: lower().strip(), then only the
\* alphanumeric and whitespace characters
normalized_title(title) ==
    SelectSeq(strip(lower(title)), LAMBDA c : isalnum(c) \/ isspace(c))


\* What arXiv can return for the query: Paper objects as search_arxiv builds
\* them (citations left at the dataclass default 0, the publication date
\* offset-aware as the arxiv client delivers result.published).
ArxivPapers ==
    { [ title |-> << "D", "e", "e", "p", " ", "L", "e", "a", "r", "n", "i", "n",
                      "g", " ", "S", "u", "r", "v", "e", "y" >>,
        url |-> 11, doi |-> 0, citations |-> 0,
        publication_date |-> [year |-> 2021, tzinfo |-> "utc"],
        source |-> "arxiv" ],
      [ title |-> << "G", "r", "a", "p", "h", " ", "N", "e", "t", "w", "o", "r",
                      "k", "s", "!" >>,
        url |-> 12, doi |-> 7, citations |-> 0,
        publication_date |-> [year |-> 2020, tzinfo |-> "utc"],
        source |-> "arxiv" ] }

\* What Google Scholar can return for the query: Paper objects as
\* search_google_scholar builds them (no doi, url "" without an eprint_url,
\* the date datetime(pub_year, 1, 1) without tzinfo or None).
ScholarPapers ==
    { [ title |-> << " ", "d", "e", "e", "p", " ", "l", "e", "a", "r", "n", "i",
                      "n", "g", ":", " ", "s", "u", "r", "v", "e", "y", " " >>,
        url |-> 21, doi |-> 0, citations |-> 5,
        publication_date |-> [year |-> 2019, tzinfo |-> "None"],
        source |-> "google_scholar" ],
      [ title |-> << "A", "t", "t", "e", "n", "t", "i", "o", "n", " ", "M", "o",
                      "d", "e", "l" >>,
        url |-> 22, doi |-> 0, citations |-> 9,
        publication_date |-> None,
        source |-> "google_scholar" ],
      [ title |-> << "S", "h", "o", "r", "t", ":", " ", "n", "o", "t", "e" >>,
        url |-> 23, doi |-> 0, citations |-> 1,
        publication_date |-> [year |-> 2018, tzinfo |-> "None"],
        source |-> "google_scholar" ],
      [ title |-> << "M", "o", "d", "e", "l", "s", " ", "a", "t", " ", "S", "c",
                      "a", "l", "e" >>,
        url |-> 0, doi |-> 0, citations |-> 0,
        publication_date |-> [year |-> 2022, tzinfo |-> "None"],
        source |-> "google_scholar" ],
      [ title |-> << "S", "t", "o", "r", "e", "d", " ", "P", "a", "p", "e", "r" >>,
        url |-> 1, doi |-> 0, citations |-> 3,
        publication_date |-> [year |-> 2017, tzinfo |-> "None"],
        source |-> "google_scholar" ] }

\* datetime.min, the date of a paper without publication_date in the sort key
datetime_min == [year |-> 1, tzinfo |-> "None"]

\* MinTitleLength one lower: a normalized title of 10 characters is kept
MinTitleLength_lower == 10 - 1

\* len(normalized_title) > 10
MinTitleLength == 10

\* sort_key without the publication date
sort_key_citationsOnly(p) ==
    [ citations |-> IF p.citations # 0 THEN p.citations ELSE 0,
      publication_date |-> datetime_min ]

\* The key of unique_papers.sort:
\* (citations if citations else 0, publication_date if publication_date else datetime.min)
sort_key(p) ==
    [ citations |-> IF p.citations # 0 THEN p.citations ELSE 0,
      publication_date |-> IF p.publication_date # None THEN p.publication_date
                           ELSE datetime_min ]

\* a < b on two sort keys whose dates are comparable (tuple comparison)
key_less(a, b) ==
    \/ a.citations < b.citations
    \/ /\ a.citations = b.citations
       /\ a.publication_date.year < b.publication_date.year

\* Comparing two sort keys raises TypeError: the citations are equal and one
\* date is offset-aware, the other offset-naive.
key_raises(a, b) ==
    /\ a.citations = b.citations
    /\ a.publication_date.tzinfo # b.publication_date.tzinfo

\* The for loop of deduplicate_papers over papers[i..]
RECURSIVE unique_papers(_, _, _, _)
unique_papers(ps, i, seen_titles, unique) ==
    IF i > Len(ps) THEN unique
    ELSE LET title == normalized_title(ps[i].title)
         IN  IF title \notin seen_titles /\ Len(title) > MinTitleLength
             THEN unique_papers(ps, i + 1, seen_titles \cup {title},
                                Append(unique, ps[i]))
             ELSE unique_papers(ps, i + 1, seen_titles, unique)

\* list.sort(key=..., reverse=True) raises: a sort that returns has ordered
\* every pair of its elements through comparisons that did not raise, which
\* two elements of equal citations and incomparable dates do not allow.
sort_raises(ps) ==
    \E i, j \in DOMAIN ps : key_raises(sort_key(ps[i]), sort_key(ps[j]))

\* list.sort(key=..., reverse=True) of ps[i..] into sorted: descending and
\* stable (an element goes behind the elements whose key is not smaller)
RECURSIVE sort_reverse(_, _, _)
sort_reverse(ps, i, sorted) ==
    IF i > Len(ps) THEN sorted
    ELSE LET k == Cardinality({ j \in DOMAIN sorted :
                       ~key_less(sort_key(sorted[j]), sort_key(ps[i])) })
         IN  sort_reverse(ps, i + 1,
                 SubSeq(sorted, 1, k) \o << ps[i] >>
                    \o SubSeq(sorted, k + 1, Len(sorted)))

\* deduplicate_papers without the loop over the titles: the sort alone
deduplicate_papers_sortOnly(ps) ==
    IF ps = << >> THEN << >>
    ELSE sort_reverse(ps, 1, << >>)

\* deduplicate_papers comparing a title with the previous paper's only
deduplicate_papers_adjacent(ps) ==
    IF ps = << >> THEN << >>
    ELSE LET keep == { i \in DOMAIN ps :
                         /\ Len(normalized_title(ps[i].title)) > MinTitleLength
                         /\ i > 1 => normalized_title(ps[i - 1].title)
                                        # normalized_title(ps[i].title) }
             kept == [ k \in 1..Cardinality(keep) |->
                         ps[CHOOSE i \in keep :
                               Cardinality({j \in keep : j <= i}) = k] ]
         IN  sort_reverse(kept, 1, << >>)

\* deduplicate_papers sorting before the loop over the titles: of the papers
\* with one title the best cited survives
deduplicate_papers_sortFirst(ps) ==
    IF ps = << >> THEN << >>
    ELSE unique_papers(sort_reverse(ps, 1, << >>), 1, {}, << >>)

\* DiscoveryAgent.deduplicate_papers, when its sort does not raise
deduplicate_papers(ps) ==
    IF ps = << >> THEN << >>
    ELSE sort_reverse(unique_papers(ps, 1, {}, << >>), 1, << >>)

\* A call of deduplicate_papers: the list it returns, or the TypeError of
\* its sort
deduplicate_papers_call(ps) ==
    IF ps # << >> /\ sort_raises(unique_papers(ps, 1, {}, << >>))
    THEN [kind |-> "TypeError", papers |-> << >>]
    ELSE [kind |-> "list", papers |-> deduplicate_papers(ps)]

\* The DiscoveryAgent's vector_store: a VectorStoreManager over the
\* documents the store holds, or None when no store is configured.
VectorStoreManager(docs) == [kind |-> "VectorStoreManager", docs |-> docs]

\* The lookups of a store that can fail
LookupKeys == {"paper_id", "doi"}

\* get_same_documents(paper_id) and similarity_search("", filter={"doi": doi}):
\* the documents whose metadata has the value under the key; both return []
\* when the underlying search raises (the key is in down).
lookup(store, key, value, down) ==
    IF key \in down THEN << >>
    ELSE SelectSeq(store.docs, LAMBDA d : Get(d, key, 0) = value)

\* is_paper_in_vectorstore that looks the doi up only when the paper has no url
is_paper_in_vectorstore_doiOnlyWithoutUrl(paper, store, down) ==
    IF store = None THEN FALSE
    ELSE IF paper.url # 0
    THEN lookup(store, "paper_id", paper.url, down) # << >>
    ELSE paper.doi # 0 /\ lookup(store, "doi", paper.doi, down) # << >>

\* DiscoveryAgent.is_paper_in_vectorstore
is_paper_in_vectorstore(paper, store, down) ==
    IF store = None THEN FALSE
    ELSE \/ /\ paper.url # 0
            /\ lookup(store, "paper_id", paper.url, down) # << >>
         \/ /\ paper.doi # 0
            /\ lookup(store, "doi", paper.doi, down) # << >>

\* DiscoveryAgent.filter_existing_papers
filter_existing_papers(ps, store, down) ==
    IF store = None THEN ps
    ELSE SelectSeq(ps, LAMBDA p : ~is_paper_in_vectorstore(p, store, down))

\* for paper in filtered_batch:
\*     if not any(p.url == paper.url for p in all_papers): all_papers.append(paper)
RECURSIVE add_new_papers(_, _, _)

\* the loop without the test on the accumulated urls
add_new_papers_noUrlCheck(filtered_batch, i, acc) ==
    acc \o SubSeq(filtered_batch, i, Len(filtered_batch))

add_new_papers(filtered_batch, i, acc) ==
    IF i > Len(filtered_batch) THEN acc
    ELSE add_new_papers(filtered_batch, i + 1,
             IF \E j \in DOMAIN acc : acc[j].url = filtered_batch[i].url
             THEN acc ELSE Append(acc, filtered_batch[i]))

\* max_attempts of search_papers
max_attempts == 5

\* the cap of search_count
SearchCountCap == 75

\* search_count without the cap
search_count_noCap(max_results, attempts) == max_results * attempts * 2

\* await asyncio.sleep(2 * search_attempts)
backoff(attempts) == 2 * attempts

\* search_count = min(max_results * search_attempts * 2, 75)
search_count(max_results, attempts) ==
    Min(max_results * attempts * 2, SearchCountCap)

\* What one adapter task does in a round: it returns papers, it fails and
\* its own except returns [], or it is cancelled (CancelledError is not an
\* Exception, so it leaves the adapter).
AdapterOutcomes == {"papers", "error", "cancelled"}

\* search_arxiv / search_google_scholar as one entry of the results of
\* asyncio.gather(*tasks, return_exceptions=True): the first max_results
\* papers of the source, [] after a caught error, or the exception object.
search_source(stream, max_results, outcome) ==
    CASE outcome = "papers" ->
            [kind |-> "list", papers |-> SubSeq(stream, 1, Min(max_results, Len(stream)))]
      [] outcome = "error" -> [kind |-> "list", papers |-> << >>]
      [] OTHER -> [kind |-> "exception", papers |-> << >>]

\* list.extend over a list of lists
RECURSIVE extend(_, _)
extend(lists, i) ==
    IF i > Len(lists) THEN << >> ELSE lists[i] \o extend(lists, i + 1)

\* batch_papers with a gather that fails as a whole when one task failed
batch_papers_failFast(results) ==
    IF \E j \in DOMAIN results : results[j].kind # "list" THEN << >>
    ELSE extend([i \in DOMAIN results |-> results[i].papers], 1)

\* for result in results: if isinstance(result, list): batch_papers.extend(result)
batch_papers(results) ==
    extend([i \in DOMAIN results |->
               IF results[i].kind = "list" THEN results[i].papers ELSE << >>], 1)

\* The while condition of search_papers
search_continues ==
    Len(all_papers) < config_max /\ search_attempts < max_attempts

\* no source holds anything for the query
NoSources == [arxiv |-> << >>, google_scholar |-> << >>]

\* no round has run
NoRounds == [arxiv |-> 0, google_scholar |-> 0]

\* discover_papers_node up to the call of search_papers: the progress
\* report and the entry of the agent's context, which may raise.
discover_begin ==
    /\ pc = "discover_papers"
    /\ current_step' = "discovering_papers"
    /\ update_progress("discovering_papers")
    /\ \/ /\ pc' = "search_papers"
          /\ UNCHANGED << errors, faults, stages >>
       \/ /\ faults < MaxFaults
          /\ faults' = faults + 1
          /\ errors' = Append(errors, "Error in discover_papers_node")
          /\ stages' = Append(stages, "discover_papers")
          /\ pc' = EdgeTarget("discover_papers")
    /\ all_papers' = << >>
    /\ search_attempts' = 0
    /\ round' = None
    /\ adapter_failures' = NoRounds
    /\ UNCHANGED << server_vars, call_vars, sources, config_max, vector_store, progress_callback,
                    docs_with_scores, papers, web_extracted_contents,
                    synthesis_result, knowledge_graph_updated, metadata,
                    skip_discovery, last_route, synth_call, indexed, result >>

\* One iteration of the while loop of search_papers, with a store that
\* answers every lookup of the round.
search_round ==
    /\ pc = "search_papers"
    /\ search_continues
    /\ search_attempts' = search_attempts + 1
    /\ \E arxiv \in AdapterOutcomes, google_scholar \in AdapterOutcomes :
          LET count    == search_count(config_max, search_attempts') \div 2
              results  == << search_source(sources.arxiv, count, arxiv),
                             search_source(sources.google_scholar, count,
                                           google_scholar) >>
              batch    == batch_papers(results)
              raises   == sort_raises(unique_papers(batch, 1, {}, << >>))
              filtered == filter_existing_papers(deduplicate_papers(batch),
                              VectorStoreManager(vector_store), {})
          IN  /\ round' = [ search_count |-> search_count(config_max, search_attempts'),
                            sleep |-> backoff(search_attempts'),
                            budgets |-> << count, count >>,
                            batch_papers |-> batch, raised |-> raises ]
              /\ all_papers' = IF raises THEN all_papers
                               ELSE add_new_papers(filtered, 1, all_papers)
              /\ adapter_failures' =
                    [ arxiv |-> adapter_failures.arxiv
                                   + (IF arxiv = "papers" THEN 0 ELSE 1),
                      google_scholar |-> adapter_failures.google_scholar
                                   + (IF google_scholar = "papers" THEN 0 ELSE 1) ]
    /\ UNCHANGED << server_vars, call_vars, sources, pc, config_max, vector_store, progress_callback,
                    docs_with_scores, state, calls, stages, last_route,
                    synth_call, indexed, faults, result >>

\* search_papers returns all_papers; discover_papers_node serializes them.
discover_end ==
    /\ pc = "search_papers"
    /\ ~search_continues
    /\ web_extracted_contents' =
          serializable_papers([i \in 1..Len(all_papers) |-> all_papers[i].url])
    /\ stages' = Append(stages, "discover_papers")
    /\ pc' = EdgeTarget("discover_papers")
    /\ UNCHANGED << server_vars, call_vars, search_vars, config_max, vector_store, progress_callback,
                    docs_with_scores, papers, synthesis_result,
                    knowledge_graph_updated, current_step, errors, metadata,
                    skip_discovery, progress, calls, last_route, synth_call,
                    indexed, faults, result >>

-----------------------------------------------------------------------------
(* Extract *)

\* One iteration of the for loop of extract_content_node, for items[i]:
\* outcome[i] is what process_pdf_from_url does for it ("content", "none" or
\* "raise"), cb_raises[i] whether the sub-progress callback raises there (the
\* extractor is called for an item with a url only, the callback after a
\* content only).  A raising callback is caught by the inner except
\* (continue): the content stays appended and the limit test is not reached.
ExtractStep(items, i, outcome, cb_raises, contents, log) ==
    IF items[i].url = 0 \/ outcome[i] # "content"
    THEN [contents |-> contents, log |-> log, break |-> FALSE]
    ELSE LET contents2 == Append(contents, [url |-> items[i].url, kind |-> "content"])
             total     == Len(items)
             called    == progress_callback # "None" /\ total > 0
             log2      == IF called
                          THEN Report(log, 20 + ((20 * i) \div total),
                                      "extracting_content (i/total)")
                          ELSE log
         IN  [ contents |-> contents2, log |-> log2,
               break |-> /\ ~(called /\ cb_raises[i])
                         /\ Len(contents2) >= MaxExtractions ]

\* The for loop of extract_content_node over items[i..]
RECURSIVE ExtractLoop(_, _, _, _, _, _)
ExtractLoop(items, i, outcome, cb_raises, contents, log) ==
    IF i > Len(items) THEN [contents |-> contents, log |-> log]
    ELSE LET step == ExtractStep(items, i, outcome, cb_raises, contents, log)
         IN  IF step.break
             THEN [contents |-> step.contents, log |-> step.log]
             ELSE ExtractLoop(items, i + 1, outcome, cb_raises,
                              step.contents, step.log)

extract_content_node ==
    /\ pc = "extract_content"
    /\ IF used_existing_docs(FALSE)
       THEN /\ web_extracted_contents' = << >>
            /\ UNCHANGED << current_step, progress, calls, errors, faults >>
       ELSE /\ current_step' = "extracting_content"
            /\ progress' = Get(progress_steps, "extracting_content", progress)
            /\ LET items == web_extracted_contents
                   log0  == Report(calls, progress', "extracting_content")
               IN  \/ \E outcome \in [1..Len(items) -> {"content", "none", "raise"}],
                         cb_raises \in [1..Len(items) -> BOOLEAN] :
                         LET r == ExtractLoop(items, 1, outcome, cb_raises, << >>, log0)
                             raised == Cardinality({i \in DOMAIN outcome :
                                                      outcome[i] = "raise"})
                                       + Cardinality({i \in DOMAIN cb_raises :
                                                      cb_raises[i]})
                         IN  /\ \A i \in DOMAIN items :
                                   /\ items[i].url = 0 => outcome[i] = "none"
                                   /\ cb_raises[i] =>
                                         /\ progress_callback # "None"
                                         /\ outcome[i] = "content"
                             /\ faults + raised <= MaxFaults
                             /\ faults' = faults + raised
                             /\ web_extracted_contents' = r.contents
                             /\ calls' = r.log
                             /\ errors' = errors
                   \/ /\ faults < MaxFaults
                      /\ faults' = faults + 1
                      /\ errors' = Append(errors, "Error in extract_content_node")
                      /\ calls' = log0
                      /\ web_extracted_contents' = web_extracted_contents
    /\ stages' = Append(stages, "extract_content")
    /\ pc' = EdgeTarget("extract_content")
    /\ UNCHANGED << server_vars, call_vars, search_vars, config_max, vector_store, progress_callback, docs_with_scores,
                    papers,
                    synthesis_result, knowledge_graph_updated, metadata,
                    skip_discovery, last_route, synth_call, indexed, result >>

-----------------------------------------------------------------------------
(* Index *)

\* The for loop of update_knowledge_graph_node over items[i..]: item fail_at
\* raises while its document is built or added, the callback raises at item
\* cb_fail_at (0: never).  Either exception leaves the loop.
RECURSIVE IndexLoop(_, _, _, _, _, _)
IndexLoop(items, i, fail_at, cb_fail_at, added, log) ==
    IF i > Len(items) THEN [ok |-> TRUE, added |-> added, log |-> log]
    ELSE IF i = fail_at THEN [ok |-> FALSE, added |-> added, log |-> log]
    ELSE LET added2 == Append(added, items[i].url)
             total  == Len(items)
             called == progress_callback # "None" /\ total > 0
             log2   == IF called
                       THEN Report(log, 40 + ((20 * i) \div total),
                                   "updating_knowledge_graph (i/total)")
                       ELSE log
         IN  IF called /\ i = cb_fail_at
             THEN [ok |-> FALSE, added |-> added2, log |-> log2]
             ELSE IndexLoop(items, i + 1, fail_at, cb_fail_at, added2, log2)

update_knowledge_graph_node ==
    /\ pc = "update_knowledge_graph"
    /\ IF used_existing_docs(FALSE)
       THEN /\ knowledge_graph_updated' = TRUE
            /\ UNCHANGED << current_step, progress, calls, errors, metadata,
                            indexed, faults >>
       ELSE /\ current_step' = "updating_knowledge_graph"
            /\ progress' = Get(progress_steps, "updating_knowledge_graph", progress)
            /\ LET items == web_extracted_contents
                   log0  == Report(calls, progress', "updating_knowledge_graph")
               IN  \E fail_at \in 0..Len(items), cb_fail_at \in 0..Len(items) :
                      LET r == IndexLoop(items, 1, fail_at, cb_fail_at, indexed, log0)
                      IN  /\ ~r.ok => faults < MaxFaults
                          /\ r.ok => fail_at = 0 /\ cb_fail_at = 0
                          /\ faults' = IF r.ok THEN faults ELSE faults + 1
                          /\ calls' = r.log
                          /\ indexed' = r.added
                          /\ IF r.ok
                             THEN /\ knowledge_graph_updated' = TRUE
                                  /\ metadata' = Put(metadata, "documents_added",
                                                     Len(items))
                                  /\ errors' = errors
                             ELSE /\ errors' = Append(errors,
                                        "Error in update_knowledge_graph_node")
                                  /\ knowledge_graph_updated' = FALSE
                                  /\ metadata' = metadata
    /\ stages' = Append(stages, "update_knowledge_graph")
    /\ pc' = EdgeTarget("update_knowledge_graph")
    /\ UNCHANGED << server_vars, call_vars, search_vars, config_max, vector_store, progress_callback, docs_with_scores,
                    papers,
                    web_extracted_contents, synthesis_result, skip_discovery,
                    last_route, synth_call, result >>

-----------------------------------------------------------------------------
(* Synthesize *)

\* What synthesize_research can return: a dict whose summary, key_findings,
\* methodology_trends and future_directions are given by their lengths, on
\* both sides of the thresholds of the quality check.
AllSynthesisResults ==
    [ kind : {"dict"}, summary : {0, 50, 51}, key_findings : {3, 4},
      methodology_trends : {3, 4}, future_directions : {5, 6} ]

\* The results a run of the whole pipeline draws from: one for each number
\* of satisfied checks, the one that satisfies none with an empty summary.
SynthesisResults ==
    { r \in AllSynthesisResults :
        /\ r.summary # 50
        /\ r.future_directions > 5 => r.methodology_trends > 3
        /\ r.methodology_trends > 3 => r.key_findings > 3
        /\ r.key_findings > 3 => r.summary > 50 }

synthesize_results_node ==
    /\ pc = "synthesize_results"
    /\ current_step' = "synthesizing_results"
    /\ update_progress("synthesizing_results")
    /\ synth_call' =
          IF used_existing_docs(TRUE)
          THEN [papers |-> papers, is_web_extracted |-> FALSE]
          ELSE [papers |-> web_extracted_contents, is_web_extracted |-> TRUE]
    /\ \/ \E r \in SynthesisResults :
             /\ synthesis_result' = r
             /\ metadata' = Put(metadata, "synthesis_completed", TRUE)
             /\ errors' = errors
             /\ faults' = faults
       \/ /\ faults < MaxFaults
          /\ faults' = faults + 1
          /\ errors' = Append(errors, "Error in synthesize_results_node")
          /\ UNCHANGED << synthesis_result, metadata >>
    /\ stages' = Append(stages, "synthesize_results")
    /\ pc' = EdgeTarget("synthesize_results")
    /\ UNCHANGED << server_vars, call_vars, search_vars, config_max, vector_store, progress_callback, docs_with_scores,
                    papers,
                    web_extracted_contents, knowledge_graph_updated,
                    skip_discovery, last_route, indexed, result >>

-----------------------------------------------------------------------------
(* QualityCheck and the retry decision *)

\* QualityScore with the summary length compared by >=
QualityScore_summaryInclusive(synthesis) ==
      (IF synthesis.summary >= 50 THEN 25 ELSE 0)
    + (IF synthesis.key_findings > 3 THEN 25 ELSE 0)
    + (IF synthesis.methodology_trends > 3 THEN 25 ELSE 0)
    + (IF synthesis.future_directions > 5 THEN 25 ELSE 0)

\* the four 25-point checks of quality_check_node
QualityScore(synthesis) ==
      (IF synthesis.summary > 50 THEN 25 ELSE 0)
    + (IF synthesis.key_findings > 3 THEN 25 ELSE 0)
    + (IF synthesis.methodology_trends > 3 THEN 25 ELSE 0)
    + (IF synthesis.future_directions > 5 THEN 25 ELSE 0)

\* quality_check_node that records no issue for a missing synthesis result
quality_check_node_noIssue ==
    /\ pc = "quality_check"
    /\ current_step' = "quality_check"
    /\ update_progress("quality_check")
    /\ LET has_result     == synthesis_result # None
           quality_score  == IF has_result THEN QualityScore(synthesis_result) ELSE 0
           quality_issues == << >>
       IN  metadata' = Put(Put(metadata, "quality_score", quality_score),
                           "quality_issues", quality_issues)
    /\ stages' = Append(stages, "quality_check")
    /\ pc' = "should_continue"
    /\ UNCHANGED << server_vars, call_vars, search_vars, faults, config_max, vector_store, progress_callback, docs_with_scores,
                    papers,
                    web_extracted_contents, synthesis_result,
                    knowledge_graph_updated, errors, skip_discovery,
                    last_route, synth_call, indexed, result >>

\* quality_check_node: the score of the synthesis result and the issues found
quality_check_node ==
    /\ pc = "quality_check"
    /\ current_step' = "quality_check"
    /\ update_progress("quality_check")
    /\ LET has_result     == synthesis_result # None
           quality_score  == IF has_result THEN QualityScore(synthesis_result) ELSE 0
           quality_issues == IF has_result THEN << >> ELSE << "No synthesis result" >>
       IN  metadata' = Put(Put(metadata, "quality_score", quality_score),
                           "quality_issues", quality_issues)
    /\ stages' = Append(stages, "quality_check")
    /\ pc' = "should_continue"
    /\ UNCHANGED << server_vars, call_vars, search_vars, faults, config_max, vector_store, progress_callback, docs_with_scores,
                    papers,
                    web_extracted_contents, synthesis_result,
                    knowledge_graph_updated, errors, skip_discovery,
                    last_route, synth_call, indexed, result >>

\* ShouldRetry with the score compared by <=
ShouldRetry_scoreInclusive(quality_score, retry_count) ==
    quality_score <= QualityThreshold /\ retry_count < MaxRetries

\* ShouldRetry with the retry count compared by <=
ShouldRetry_countInclusive(quality_score, retry_count) ==
    quality_score < QualityThreshold /\ retry_count <= MaxRetries

\* the test of should_continue
ShouldRetry(quality_score, retry_count) ==
    quality_score < QualityThreshold /\ retry_count < MaxRetries

\* should_continue clearing skip_discovery when it sends the run back to Discover
should_continue_resetSkip ==
    /\ pc = "should_continue"
    /\ LET quality_score == Get(metadata, "quality_score", 0)
           retry_count   == Get(metadata, "retry_count", 0)
       IN  IF ShouldRetry(quality_score, retry_count)
           THEN /\ metadata' = Put(metadata, "retry_count", retry_count + 1)
                /\ last_route' = "continue"
           ELSE /\ metadata' = metadata
                /\ last_route' = "end"
    /\ pc' = ContinueEdges(last_route')
    /\ skip_discovery' = (skip_discovery /\ last_route' = "end")
    /\ UNCHANGED << server_vars, call_vars, search_vars, faults, config_max, vector_store, progress_callback, docs_with_scores,
                    papers,
                    web_extracted_contents, synthesis_result,
                    knowledge_graph_updated, current_step, errors,
                    progress, calls, stages, synth_call,
                    indexed, result >>

should_continue ==
    /\ pc = "should_continue"
    /\ LET quality_score == Get(metadata, "quality_score", 0)
           retry_count   == Get(metadata, "retry_count", 0)
       IN  IF ShouldRetry(quality_score, retry_count)
           THEN /\ metadata' = Put(metadata, "retry_count", retry_count + 1)
                /\ last_route' = "continue"
           ELSE /\ metadata' = metadata
                /\ last_route' = "end"
    /\ pc' = ContinueEdges(last_route')
    /\ UNCHANGED << server_vars, call_vars, search_vars, faults, config_max, vector_store, progress_callback, docs_with_scores,
                    papers,
                    web_extracted_contents, synthesis_result,
                    knowledge_graph_updated, current_step, errors,
                    skip_discovery, progress, calls, stages, synth_call,
                    indexed, result >>

-----------------------------------------------------------------------------
(* run_research *)

\* the results dict of the success path
CompletedResult ==
    [ status            |-> IF errors = << >> THEN "completed"
                            ELSE "completed_with_errors",
      papers_found      |-> Get(metadata, "papers_found", 0),
      content_extracted |-> Len(web_extracted_contents),
      synthesis         |-> synthesis_result,
      quality_score     |-> Get(metadata, "quality_score", 0),
      errors            |-> errors,
      metadata          |-> metadata,
      final_progress    |-> progress ]

\* the dict returned by the except branch
FailedResult ==
    [ status            |-> "failed",
      error             |-> "exception",
      papers_found      |-> 0,
      content_extracted |-> 0,
      synthesis         |-> None,
      quality_score     |-> 0,
      final_progress    |-> 0 ]

\* run_research after workflow.ainvoke returned: the final progress update,
\* then the results dict; an exception of the try block (the callback's) goes
\* to the except branch, whose own callback invocation is not guarded.
run_research_finish ==
    /\ pc = "END"
    /\ IF progress_callback = "None"
       THEN /\ result' = CompletedResult
            /\ pc' = "returned"
            /\ calls' = calls
            /\ faults' = faults
       ELSE \E raises1 \in BOOLEAN, raises2 \in BOOLEAN :
               LET log1 == Report(calls, 100, "completed")
                   log2 == Report(log1, 100, "failed")
               IN  IF ~raises1
                   THEN /\ ~raises2
                        /\ result' = CompletedResult
                        /\ pc' = "returned"
                        /\ calls' = log1
                        /\ faults' = faults
                   ELSE IF ~raises2
                   THEN /\ faults + 1 <= MaxFaults
                        /\ result' = FailedResult
                        /\ pc' = "returned"
                        /\ calls' = log2
                        /\ faults' = faults + 1
                   ELSE /\ faults + 2 <= MaxFaults
                        /\ result' = None
                        /\ pc' = "raised"
                        /\ calls' = log2
                        /\ faults' = faults + 2
    /\ UNCHANGED << server_vars, call_vars, search_vars, config_max, vector_store, progress_callback, docs_with_scores,
                    papers,
                    web_extracted_contents, synthesis_result,
                    knowledge_graph_updated, current_step, errors, metadata,
                    skip_discovery, progress, stages, last_route, synth_call,
                    indexed >>

-----------------------------------------------------------------------------
(* Initial states and specifications *)

\* The ranked matches of a store holding low matches on the threshold
\* (score 0.8), matches without a paper_id, further chunks of paper 1, and
\* rel papers of one relevant chunk each.
RankedStore(low, empty, dup, rel) ==
       Repeat([paper_id |-> 1000, score |-> RelevanceThreshold], low)
    \o Repeat([paper_id |-> 0, score |-> 9], empty)
    \o Repeat([paper_id |-> 1, score |-> 9], dup)
    \o [i \in 1..rel |-> [paper_id |-> i, score |-> 9]]

\* A fresh ResearchState (initial_state of run_research) and nothing done yet
\* No request has been received and no agent has opened a session
NoServer ==
    /\ request_status = << >>
    /\ tasks = << >>
    /\ agent_session = [discovery_agent |-> 0, pdf_processor |-> 0]
    /\ client_sessions = << >>

FreshState ==
    /\ NoServer
    /\ papers = << >>
    /\ web_extracted_contents = << >>
    /\ synthesis_result = None
    /\ knowledge_graph_updated = FALSE
    /\ current_step = "initialized"
    /\ errors = << >>
    /\ metadata = [retry_count |-> 0]
    /\ skip_discovery = FALSE
    /\ progress = 0
    /\ calls = << >>
    /\ stages = << >>
    /\ last_route = "none"
    /\ synth_call = None
    /\ docs_with_scores = << >>
    /\ indexed = << >>
    /\ faults = 0
    /\ result = None
    /\ all_papers = << >>
    /\ search_attempts = 0
    /\ round = None
    /\ adapter_failures = NoRounds

\* initial_state of run_research, at the graph's entry point
InitialState ==
    /\ pc = EntryPoint
    /\ FreshState
    /\ args = None
    /\ retval = None

\* A run with the configured max_papers_per_search over a store just below
\* or at the skip threshold.
Init ==
    /\ config_max = DefaultMaxPapers
    /\ \E rel \in {DefaultMaxPapers + SkipMargin - 1, DefaultMaxPapers + SkipMargin} :
          vector_store = RankedStore(0, 0, 0, rel)
    /\ progress_callback \in {"None", "sink"}
    /\ sources = NoSources
    /\ InitialState

Next ==
    \/ check_existing_docs_node
    \/ should_discover_papers
    \/ discover_papers_node
    \/ extract_content_node
    \/ update_knowledge_graph_node
    \/ synthesize_results_node
    \/ quality_check_node
    \/ should_continue
    \/ run_research_finish

Spec == Init /\ [][Next]_vars

\* Every suspension point of the run resumes: each collaborator call returns
\* or raises.
LiveSpec == Spec /\ WF_vars(Next)

\* The check of the existing documents alone, over stores on both sides of
\* the skip threshold and of the search's k, with the configured
\* max_papers_per_search and with 50.
StoreSizes == {0, 19, 20, 21, 49, 50, 59, 60, 65}

InitCheck ==
    /\ config_max \in {DefaultMaxPapers, 50}
    /\ \E low \in 0..1, empty \in 0..1, dup \in 0..1, rel \in StoreSizes :
          vector_store = RankedStore(low, empty, dup, rel)
    /\ progress_callback \in {"None", "sink"}
    /\ sources = NoSources
    /\ InitialState

NextCheck ==
    \/ check_existing_docs_node
    \/ should_discover_papers

CheckSpec == InitCheck /\ [][NextCheck]_vars

\* The quality gate alone: the state that enters quality_check after a first
\* pass over an empty store in which discovery found nothing, for every
\* synthesis result and for a synthesis call that raised.
InitQuality ==
    /\ pc = "quality_check"
    /\ config_max = DefaultMaxPapers
    /\ vector_store = << >>
    /\ docs_with_scores = << >>
    /\ progress_callback \in {"None", "sink"}
    /\ papers = << >>
    /\ web_extracted_contents = << >>
    /\ knowledge_graph_updated = TRUE
    /\ current_step = "synthesizing_results"
    /\ skip_discovery = FALSE
    /\ progress = 80
    /\ calls = IF progress_callback = "None" THEN << >>
               ELSE [i \in 1..5 |->
                       LET step == << "checking_existing_docs", "discovering_papers",
                                      "extracting_content", "updating_knowledge_graph",
                                      "synthesizing_results" >>[i]
                       IN  [progress |-> progress_steps[step], step |-> step]]
    /\ stages = << "check_existing_docs", "discover_papers", "extract_content",
                   "update_knowledge_graph", "synthesize_results" >>
    /\ last_route = "discover"
    /\ synth_call = [papers |-> << >>, is_web_extracted |-> TRUE]
    /\ indexed = << >>
    /\ result = None
    /\ sources = NoSources
    /\ all_papers = << >>
    /\ search_attempts = 0
    /\ round = None
    /\ adapter_failures = NoRounds
    /\ args = None
    /\ retval = None
    /\ NoServer
    /\ \/ /\ synthesis_result \in AllSynthesisResults
          /\ metadata = [retry_count |-> 0, used_existing_docs |-> FALSE,
                         documents_added |-> 0, synthesis_completed |-> TRUE]
          /\ errors = << >>
          /\ faults = 0
       \/ /\ synthesis_result = None
          /\ metadata = [retry_count |-> 0, used_existing_docs |-> FALSE,
                         documents_added |-> 0]
          /\ errors = << "Error in synthesize_results_node" >>
          /\ faults = 1

NextQuality ==
    \/ quality_check_node
    \/ should_continue
    \/ run_research_finish

QualitySpec == InitQuality /\ [][NextQuality]_vars

\* Streams of at most MaxStream distinct papers of a source
Streams(source_papers) ==
    { s \in UNION { [1..n -> source_papers] : n \in 0..MaxStream } :
        \A i, j \in DOMAIN s : i # j => s[i] # s[j] }

\* Discovery in detail: discover_papers_node in the first pass of a run,
\* entered after check_existing_docs_node found one stored paper (by url and
\* doi) and the router chose discovery, for max_papers_per_search 1, 2 and 10
\* and every pair of source streams; arXiv delivers its results by
\* descending submission date.
InitSearch ==
    /\ pc = "discover_papers"
    /\ config_max \in {1, 2, DefaultMaxPapers}
    /\ vector_store = << [paper_id |-> 1, score |-> 9, doi |-> 7] >>
    /\ progress_callback = "sink"
    /\ \E a \in Streams(ArxivPapers), g \in Streams(ScholarPapers) :
          /\ \A i, j \in DOMAIN a :
                i < j => a[i].publication_date.year >= a[j].publication_date.year
          /\ sources = [arxiv |-> a, google_scholar |-> g]
    /\ docs_with_scores = similarity_search_with_scores(vector_store, SearchK, FALSE)
    /\ papers = << >>
    /\ web_extracted_contents = << >>
    /\ synthesis_result = None
    /\ knowledge_graph_updated = FALSE
    /\ current_step = "checking_existing_docs"
    /\ errors = << >>
    /\ metadata = [retry_count |-> 0, used_existing_docs |-> FALSE]
    /\ skip_discovery = FALSE
    /\ progress = progress_steps["checking_existing_docs"]
    /\ calls = << [progress |-> progress_steps["checking_existing_docs"],
                   step |-> "checking_existing_docs"] >>
    /\ stages = << "check_existing_docs" >>
    /\ last_route = "discover"
    /\ synth_call = None
    /\ indexed = << >>
    /\ faults = 0
    /\ result = None
    /\ all_papers = << >>
    /\ search_attempts = 0
    /\ round = None
    /\ adapter_failures = NoRounds
    /\ args = None
    /\ retval = None
    /\ NoServer

NextSearch ==
    \/ discover_begin
    \/ search_round
    \/ discover_end

SearchSpec == InitSearch /\ [][NextSearch]_vars

\* A further Google Scholar paper: its normalized title has 11 characters
\* and its sort key equals that of another paper.
MorePapers ==
    { [ title |-> << "S", "h", "o", "r", "t", " ", "n", "o", "t", "e", "s", "!" >>,
        url |-> 24, doi |-> 0, citations |-> 5,
        publication_date |-> [year |-> 2019, tzinfo |-> "None"],
        source |-> "google_scholar" ] }

\* The lists of at most MaxBatch papers handed to deduplicate_papers
PaperLists ==
    UNION { [1..n -> ArxivPapers \cup ScholarPapers \cup MorePapers] :
              n \in 0..MaxBatch }

\* deduplicate_papers alone, on every list of papers, and again on its result
InitDedupe ==
    /\ pc = "deduplicate_papers"
    /\ config_max = DefaultMaxPapers
    /\ vector_store = << >>
    /\ progress_callback = "None"
    /\ sources = NoSources
    /\ FreshState
    /\ args \in [papers : PaperLists]
    /\ retval = None

deduplicate_first ==
    /\ pc = "deduplicate_papers"
    /\ retval' = deduplicate_papers_call(args.papers)
    /\ pc' = "deduplicated"
    /\ UNCHANGED << server_vars, args, search_vars, config_max, vector_store,
                    progress_callback, docs_with_scores, state, calls, stages,
                    last_route, synth_call, indexed, faults, result >>

deduplicate_again ==
    /\ pc = "deduplicated"
    /\ retval.kind = "list"
    /\ args' = [papers |-> retval.papers]
    /\ retval' = deduplicate_papers_call(retval.papers)
    /\ pc' = "deduplicated_again"
    /\ UNCHANGED << server_vars, search_vars, config_max, vector_store, progress_callback,
                    docs_with_scores, state, calls, stages, last_route,
                    synth_call, indexed, faults, result >>

NextDedupe ==
    \/ deduplicate_first
    \/ deduplicate_again

DedupeSpec == InitDedupe /\ [][NextDedupe]_vars

\* The longest list handed to filter_existing_papers
MaxFilter == 2

\* Papers to look up: without url, with the url the store holds (1) and with
\* another url; without doi, with the doi the store holds (7) and with another
LookedUpPapers ==
    { [ title |-> << "G", "r", "a", "p", "h", " ", "N", "e", "t", "w", "o", "r",
                     "k", "s", "!" >>,
        url |-> u, doi |-> d, citations |-> 0,
        publication_date |-> [year |-> 2020, tzinfo |-> "utc"],
        source |-> "arxiv" ] : u \in {0, 1, 12}, d \in {0, 7, 8} }

\* The agent's store: none configured, an empty one, one holding a document
Stores ==
    { None, VectorStoreManager(<< >>),
      VectorStoreManager(<< [paper_id |-> 1, score |-> 9, doi |-> 7] >>) }

\* filter_existing_papers alone: on every list of papers, with every store and
\* every set of lookups that fail during the call
InitFilter ==
    /\ pc = "filter_existing_papers"
    /\ config_max = DefaultMaxPapers
    /\ vector_store = << >>
    /\ progress_callback = "None"
    /\ sources = NoSources
    /\ FreshState
    /\ args \in [ papers : UNION { [1..n -> LookedUpPapers] : n \in 0..MaxFilter },
                  vector_store : Stores,
                  failing : SUBSET LookupKeys ]
    /\ retval = None

filter_existing ==
    /\ pc = "filter_existing_papers"
    /\ retval' = [ kind |-> "list",
                   papers |-> filter_existing_papers(args.papers,
                                  args.vector_store, args.failing) ]
    /\ pc' = "filtered"
    /\ UNCHANGED << server_vars, args, search_vars, config_max, vector_store,
                    progress_callback, docs_with_scores, state, calls, stages,
                    last_route, synth_call, indexed, faults, result >>

NextFilter == filter_existing

FilterSpec == InitFilter /\ [][NextFilter]_vars

\* Numbers of papers handed to the Extract loop: a few, and as many as the
\* limit of successful extractions, one more and two more
ExtractSizes == {1, 2, MaxExtractions - 1, MaxExtractions, MaxExtractions + 1,
                 MaxExtractions + 2}

\* Items at which the sub-progress callback raises (0: at none)
CallbackFailures == {0, 1, MaxExtractions, MaxExtractions + 1}

\* The loop of extract_content_node alone: n serialized papers, the first
\* with or without a url; what the extractor does for the first two (it
\* returns a content for the others); the item at which the callback raises.
InitExtract ==
    /\ pc = "extract_loop"
    /\ config_max = DefaultMaxPapers
    /\ vector_store = << >>
    /\ progress_callback \in {"None", "sink"}
    /\ sources = NoSources
    /\ FreshState
    /\ \E n \in ExtractSizes, first_url \in {0, 101},
          first \in {"content", "none", "raise"},
          second \in {"content", "none", "raise"},
          cb \in CallbackFailures :
          /\ first_url = 0 => first = "none"
          /\ args = [ items |-> [ i \in 1..n |->
                                   [ url |-> IF i = 1 THEN first_url ELSE 100 + i,
                                     kind |-> "paper" ] ],
                      outcome |-> [ i \in 1..n |->
                                     IF i = 1 THEN first
                                     ELSE IF i = 2 THEN second ELSE "content" ],
                      cb_raises |-> [ i \in 1..n |-> i = cb ] ]
    /\ retval = [i |-> 1, contents |-> << >>, log |-> << >>]

\* One iteration of the loop: retval holds the loop's locals, the index i of
\* the next item, the contents appended and the reports made so far.
extract_item ==
    /\ pc = "extract_loop"
    /\ retval.i <= Len(args.items)
    /\ LET step == ExtractStep(args.items, retval.i, args.outcome,
                               args.cb_raises, retval.contents, retval.log)
       IN  /\ retval' = [ i |-> retval.i + 1, contents |-> step.contents,
                          log |-> step.log ]
           /\ pc' = IF step.break THEN "extracted" ELSE "extract_loop"
    /\ UNCHANGED << server_vars, args, search_vars, config_max, vector_store,
                    progress_callback, docs_with_scores, state, calls, stages,
                    last_route, synth_call, indexed, faults, result >>

\* The loop ends with the last item.
extract_end ==
    /\ pc = "extract_loop"
    /\ retval.i > Len(args.items)
    /\ pc' = "extracted"
    /\ UNCHANGED << server_vars, call_vars, search_vars, config_max, vector_store,
                    progress_callback, docs_with_scores, state, calls, stages,
                    last_route, synth_call, indexed, faults, result >>

NextExtract ==
    \/ extract_item
    \/ extract_end

ExtractSpec == InitExtract /\ [][NextExtract]_vars

-----------------------------------------------------------------------------
(* Concurrent runs on the one workflow instance (src/main.py) *)

\* The background tasks of two requests: both call run_research of the one
\* workflow_instance, whose discovery_agent and pdf_processor they share.
Runs == {1, 2}

\* The objects of the workflow entered with `async with`
Agents == {"discovery_agent", "pdf_processor"}

\* The node that enters the agent's context
EnteringNode(agent) ==
    IF agent = "discovery_agent" THEN "discover_papers" ELSE "extract_content"

\* Where a run is while it is inside the agent's context (suspended in
\* search_papers, or in process_pdf_from_url)
Inside(agent) ==
    IF agent = "discovery_agent" THEN "search_papers" ELSE "process_pdf_from_url"

\* The node a run goes to when it leaves the agent's context; the stages
\* between Extract and the retry decision open no session.
LeavingNode(agent) ==
    IF agent = "discovery_agent" THEN EdgeTarget("discover_papers")
    ELSE "should_continue"

\* __aenter__ of DiscoveryAgent and of PDFProcessor, called by run r: a new
\* ClientSession is created and assigned to self.session.
aenter(r, agent) ==
    /\ tasks[r].at = EnteringNode(agent)
    /\ client_sessions' = Append(client_sessions,
                                 [ agent |-> agent, opened_by |-> r,
                                   closed_by |-> 0 ])
    /\ agent_session' = [agent_session EXCEPT ![agent] = Len(client_sessions')]
    /\ tasks' = [tasks EXCEPT ![r].at = Inside(agent)]
    /\ UNCHANGED << pc, config_max, vector_store, progress_callback,
                    docs_with_scores, state, calls, stages, last_route,
                    synth_call, indexed, faults, result, search_vars,
                    call_vars, request_status >>

\* __aexit__, called by run r: `if self.session: await self.session.close()`
\* closes the session the agent holds now; closing a closed session does
\* nothing, and self.session keeps the closed session.
aexit(r, agent) ==
    /\ tasks[r].at = Inside(agent)
    /\ LET session == agent_session[agent]
       IN  client_sessions' =
              IF session # 0 /\ client_sessions[session].closed_by = 0
              THEN [client_sessions EXCEPT ![session].closed_by = r]
              ELSE client_sessions
    /\ tasks' = [tasks EXCEPT ![r].at = LeavingNode(agent)]
    /\ UNCHANGED << pc, config_max, vector_store, progress_callback,
                    docs_with_scores, state, calls, stages, last_route,
                    synth_call, indexed, faults, result, search_vars,
                    call_vars, request_status, agent_session >>

\* The retry decision of run r: back to Discover, at most MaxRetries times,
\* or the end of the run.
retry_or_end(r) ==
    /\ tasks[r].at = "should_continue"
    /\ \/ /\ tasks[r].retry_count < MaxRetries
          /\ tasks' = [tasks EXCEPT ![r] = [ at |-> ContinueEdges("continue"),
                                             retry_count |-> @.retry_count + 1 ]]
       \/ tasks' = [tasks EXCEPT ![r].at = ContinueEdges("end")]
    /\ UNCHANGED << pc, config_max, vector_store, progress_callback,
                    docs_with_scores, state, calls, stages, last_route,
                    synth_call, indexed, faults, result, search_vars,
                    call_vars, request_status, agent_session, client_sessions >>

\* Two runs that did not skip discovery, both at the Discover stage
InitSessions ==
    /\ pc = "serving"
    /\ config_max = DefaultMaxPapers
    /\ vector_store = << >>
    /\ progress_callback = "sink"
    /\ sources = NoSources
    /\ papers = << >>
    /\ web_extracted_contents = << >>
    /\ synthesis_result = None
    /\ knowledge_graph_updated = FALSE
    /\ current_step = "initialized"
    /\ errors = << >>
    /\ metadata = [retry_count |-> 0]
    /\ skip_discovery = FALSE
    /\ progress = 0
    /\ calls = << >>
    /\ stages = << >>
    /\ last_route = "none"
    /\ synth_call = None
    /\ docs_with_scores = << >>
    /\ indexed = << >>
    /\ faults = 0
    /\ result = None
    /\ all_papers = << >>
    /\ search_attempts = 0
    /\ round = None
    /\ adapter_failures = NoRounds
    /\ args = None
    /\ retval = None
    /\ request_status = << >>
    /\ tasks = [ r \in Runs |-> [at |-> "discover_papers", retry_count |-> 0] ]
    /\ agent_session = [discovery_agent |-> 0, pdf_processor |-> 0]
    /\ client_sessions = << >>

\* The event loop resumes one of the runs at its next suspension point.
NextSessions ==
    \E r \in Runs :
        \/ aenter(r, "discovery_agent")
        \/ aexit(r, "discovery_agent")
        \/ aenter(r, "pdf_processor")
        \/ aexit(r, "pdf_processor")
        \/ retry_or_end(r)

SessionSpec == InitSessions /\ [][NextSessions]_vars

-----------------------------------------------------------------------------
(* The request registry (src/main.py) *)

\* The request ids uuid4 hands out
Requests == {1, 2}

\* What run_research returns to run_research_task: the results dict of the
\* success path, without and with errors, and the dict of the except branch
\* (the key "query", which both carry, is left out)
RunResults ==
    { [ status            |-> "completed",
        papers_found      |-> 0,
        content_extracted |-> 0,
        synthesis         |-> None,
        quality_score     |-> 0,
        errors            |-> << >>,
        metadata          |-> [retry_count |-> 0],
        final_progress    |-> 100 ],
      [ status            |-> "completed_with_errors",
        papers_found      |-> 0,
        content_extracted |-> 0,
        synthesis         |-> None,
        quality_score     |-> 0,
        errors            |-> << "Error in discover_papers_node" >>,
        metadata          |-> [retry_count |-> 0],
        final_progress    |-> 100 ],
      FailedResult }

\* The reports the progress callback of a task writes into the registry
ProgressReports ==
    { [progress |-> Get(progress_steps, "checking_existing_docs", 0),
       current_step |-> "checking_existing_docs"],
      [progress |-> 100, current_step |-> "completed"] }

\* dict.update
Update(d, new) ==
    [ k \in (DOMAIN d) \cup (DOMAIN new) |->
         IF k \in DOMAIN new THEN new[k] ELSE d[k] ]

\* The keys of the stored results that get_research_results reads
ResultsRead ==
    { "status", "papers_found", "content_extracted", "synthesis",
      "quality_score", "errors", "metadata" }

\* POST /research: a fresh request id is registered and its task scheduled.
start_research(id) ==
    /\ id \notin DOMAIN request_status
    /\ request_status' = Put(request_status, id,
                             [ status |-> "started", progress |-> 0,
                               current_step |-> "initializing" ])
    /\ tasks' = Put(tasks, id, "scheduled")
    /\ UNCHANGED << pc, config_max, vector_store, progress_callback,
                    docs_with_scores, state, calls, stages, last_route,
                    synth_call, indexed, faults, result, search_vars,
                    call_vars, agent_session, client_sessions >>

\* run_research_task up to the call of run_research
run_research_task_begin(id) ==
    /\ id \in DOMAIN tasks
    /\ tasks[id] = "scheduled"
    /\ request_status' = [request_status EXCEPT
                             ![id] = Update(@, [status |-> "running"])]
    /\ tasks' = [tasks EXCEPT ![id] = "running"]
    /\ UNCHANGED << pc, config_max, vector_store, progress_callback,
                    docs_with_scores, state, calls, stages, last_route,
                    synth_call, indexed, faults, result, search_vars,
                    call_vars, agent_session, client_sessions >>

\* progress_callback of run_research_task, called by the running workflow
task_progress_callback(id) ==
    /\ id \in DOMAIN tasks
    /\ tasks[id] = "running"
    /\ \E report \in ProgressReports :
          request_status' = [request_status EXCEPT ![id] = Update(@, report)]
    /\ UNCHANGED << pc, config_max, vector_store, progress_callback,
                    docs_with_scores, state, calls, stages, last_route,
                    synth_call, indexed, faults, result, search_vars,
                    call_vars, tasks, agent_session, client_sessions >>

\* run_research_task after run_research: the final status update with the
\* results, or the except branch when run_research raised
run_research_task_end(id) ==
    /\ id \in DOMAIN tasks
    /\ tasks[id] = "running"
    /\ \/ \E results \in RunResults :
             request_status' = [request_status EXCEPT
                ![id] = Update(@, [ status |-> "completed", progress |-> 100,
                                    current_step |-> "completed",
                                    results |-> results ])]
       \/ request_status' = [request_status EXCEPT
                ![id] = Update(@, [ status |-> "completed with errors",
                                    progress |-> 100,
                                    current_step |-> "failed",
                                    error |-> "exception" ])]
    /\ tasks' = [tasks EXCEPT ![id] = "done"]
    /\ UNCHANGED << pc, config_max, vector_store, progress_callback,
                    docs_with_scores, state, calls, stages, last_route,
                    synth_call, indexed, faults, result, search_vars,
                    call_vars, agent_session, client_sessions >>

\* GET /research/{request_id}/results
get_research_results(id) ==
    /\ args' = [endpoint |-> "get_research_results", request_id |-> id]
    /\ retval' =
          IF id \notin DOMAIN request_status
          THEN [kind |-> "HTTPException", status_code |-> 404]
          ELSE IF request_status[id].status # "completed"
          THEN [kind |-> "HTTPException", status_code |-> 400]
          ELSE LET results == request_status[id].results
               IN  IF ResultsRead \subseteq DOMAIN results
                   THEN [ kind |-> "ResearchResponse", request_id |-> id,
                          status |-> results.status,
                          papers_found |-> results.papers_found,
                          content_extracted |-> results.content_extracted,
                          synthesis |-> results.synthesis,
                          quality_score |-> results.quality_score,
                          errors |-> results.errors,
                          metadata |-> results.metadata ]
                   ELSE [kind |-> "KeyError"]
    /\ UNCHANGED << pc, config_max, vector_store, progress_callback,
                    docs_with_scores, state, calls, stages, last_route,
                    synth_call, indexed, faults, result, search_vars,
                    server_vars >>

\* The server after its start: no request yet
InitRegistry ==
    /\ pc = "serving"
    /\ config_max = DefaultMaxPapers
    /\ vector_store = << >>
    /\ progress_callback = "sink"
    /\ sources = NoSources
    /\ FreshState
    /\ args = None
    /\ retval = None

NextRegistry ==
    \E id \in Requests :
        \/ start_research(id)
        \/ run_research_task_begin(id)
        \/ task_progress_callback(id)
        \/ run_research_task_end(id)
        \/ get_research_results(id)

RegistrySpec == InitRegistry /\ [][NextRegistry]_vars

-----------------------------------------------------------------------------
(* Properties *)

\* number of times a node has been executed
Count(node) == Cardinality({i \in DOMAIN stages : stages[i] = node})

Done == pc \in {"END", "returned", "raised"}

\* the edges the stage sequence may follow
StageEdges ==
    { << "check_existing_docs", "discover_papers" >>,
      << "check_existing_docs", "synthesize_results" >>,
      << "discover_papers", "extract_content" >>,
      << "extract_content", "update_knowledge_graph" >>,
      << "update_knowledge_graph", "synthesize_results" >>,
      << "synthesize_results", "quality_check" >>,
      << "quality_check", "discover_papers" >> }

\* C1: the executed stages follow only the edges CheckExisting -> Discover |
\* Synthesize, Discover -> Extract -> Index -> Synthesize -> QualityCheck and
\* QualityCheck -> Discover | Done; CheckExisting runs exactly once, first.
C1_StageOrder ==
    /\ \A i \in 1..(Len(stages) - 1) : << stages[i], stages[i + 1] >> \in StageEdges
    /\ pc # "check_existing_docs" =>
          stages # << >> /\ stages[1] = "check_existing_docs"
    /\ Count("check_existing_docs") <= 1
    /\ Done => stages[Len(stages)] = "quality_check"

\* a finished run that skipped discovery and then retried
C1_Witness ==
    /\ pc = "returned"
    /\ Len(stages) >= 8
    /\ stages[2] = "synthesize_results"
    /\ stages[4] = "discover_papers"

\* C2: should_continue returns 'continue' iff quality_score < 50 and
\* retry_count < 2; on 'continue' retry_count grows by exactly 1 and the next
\* stage is Discover; on 'end' retry_count is unchanged and the workflow ends.
C2_ShouldContinue ==
    [][ pc = "should_continue" =>
          LET q == Get(metadata, "quality_score", 0)
              r == Get(metadata, "retry_count", 0)
          IN  /\ last_route' \in {"continue", "end"}
              /\ (last_route' = "continue") <=> (q < 50 /\ r < 2)
              /\ last_route' = "continue" =>
                    /\ metadata'["retry_count"] = r + 1
                    /\ pc' = "discover_papers"
              /\ last_route' = "end" =>
                    /\ metadata' = metadata
                    /\ pc' = "END" ]_vars

\* the gate ended a run on a score of exactly 50 with a retry still available
C2_Witness ==
    /\ pc = "END"
    /\ last_route = "end"
    /\ metadata["quality_score"] = 50
    /\ metadata["retry_count"] = 1

\* C3: retry_count is 0, 1 or 2, starts at 0, never decreases, and once it
\* is 2 the gate returns 'end' whatever the score.
C3_RetryCount ==
    /\ [](/\ metadata["retry_count"] \in {0, 1, 2}
          /\ stages = << >> => metadata["retry_count"] = 0)
    /\ [][ metadata'["retry_count"] >= metadata["retry_count"] ]_vars
    /\ [][ pc = "should_continue" /\ metadata["retry_count"] = 2 =>
              last_route' = "end" /\ pc' = "END" ]_vars

\* the gate ended a run on a low score because two retries were used
C3_Witness ==
    /\ pc = "END"
    /\ last_route = "end"
    /\ metadata["quality_score"] < 50
    /\ metadata["retry_count"] = 2

\* C4: every run reaches Done; QualityCheck and Discover each run at most 3
\* times in a run.
C4_Terminates ==
    /\ <>Done
    /\ [](Count("quality_check") <= 3 /\ Count("discover_papers") <= 3)

\* a finished run that ran Discover and QualityCheck three times each
C4_Witness ==
    /\ pc = "returned"
    /\ Count("quality_check") = 3
    /\ Count("discover_papers") = 3

\* number of the four checks of the quality gate a synthesis result satisfies
ChecksSatisfied(synthesis) ==
    Cardinality({ c \in {"summary", "key_findings", "methodology_trends",
                         "future_directions"} :
                    synthesis[c] > [ summary |-> 50, key_findings |-> 3,
                                     methodology_trends |-> 3,
                                     future_directions |-> 5 ][c] })

\* C5: for any synthesis result the quality score is in {0,25,50,75,100} and
\* is 25 times the number of satisfied checks (summary length > 50,
\* key findings > 3, methodology trends > 3, future directions > 5).
C5_QualityScore ==
    [][ pc = "quality_check" /\ synthesis_result # None =>
          /\ metadata'["quality_score"] \in {0, 25, 50, 75, 100}
          /\ metadata'["quality_score"] = 25 * ChecksSatisfied(synthesis_result) ]_vars

\* a score of 75 for a summary of exactly 50 characters and three long lists
C5_Witness ==
    /\ pc = "should_continue"
    /\ synthesis_result # None
    /\ synthesis_result.summary = 50
    /\ metadata["quality_score"] = 75

\* distinct non-empty ids among the returned matches with score > 0.8
DistinctRelevantIds(docs) ==
    { docs[i].paper_id : i \in {j \in DOMAIN docs : docs[j].score > 8} } \ {0}

\* C6: skip_discovery is true iff the number of distinct non-empty ids among
\* the matches with score > 0.8 is at least max_papers_per_search + 10; it is
\* false for any smaller count and whenever the check fails.
C6_SkipDecision ==
    [][ pc = "check_existing_docs" =>
          IF errors' # errors
          THEN skip_discovery' = FALSE
          ELSE skip_discovery' <=>
                 (Cardinality(DistinctRelevantIds(docs_with_scores'))
                     >= config_max + 10) ]_vars

\* the check skipped discovery on exactly max + 10 distinct ids among more
\* matches (a low match, a match without id and a second chunk of one paper)
C6_Witness ==
    /\ pc = "should_discover_papers"
    /\ skip_discovery
    /\ Cardinality(DistinctRelevantIds(docs_with_scores)) = config_max + 10
    /\ Len(docs_with_scores) = config_max + 13

\* C7: skip_discovery is assigned by CheckExisting before Discover can run
\* and no later stage changes it.
C7_SkipFixed ==
    /\ [](Count("discover_papers") > 0 => stages[1] = "check_existing_docs")
    /\ [][ pc # "check_existing_docs" => skip_discovery' = skip_discovery ]_vars

\* a run that skipped discovery, retried through Discover and finished with
\* the flag still set
C7_Witness ==
    /\ pc = "returned"
    /\ skip_discovery
    /\ Count("discover_papers") >= 1

C9_ScenarioA ==
    ( /\ config_max = 50
      /\ vector_store = RankedStore(0, 0, 0, 65)
      /\ pc = "should_discover_papers"
      /\ errors = << >>
      /\ faults = 0 )
    => ( skip_discovery /\ Len(papers) = 65 )

\* C10: no exception leaves run_research; the caller always gets a Result.
C10_AlwaysResult ==
    pc \in {"returned", "raised"} => (pc = "returned" /\ result # None)

\* C11: every Result returned by run_research carries the fields status,
\* papers_found, content_extracted, synthesis, quality_score, errors,
\* metadata and final_progress.
C11_ResultFields ==
    pc = "returned" =>
        { "status", "papers_found", "content_extracted", "synthesis",
          "quality_score", "errors", "metadata", "final_progress" }
            \subseteq DOMAIN result

\* C12: the status is 'completed' exactly when no exception escaped a stage
\* and errors is empty, 'completed_with_errors' exactly when none escaped and
\* errors is non-empty, 'failed' exactly when one escaped.  Every stage
\* catches the exceptions raised inside it, so no run has an escaped one.
C12_Status ==
    pc = "returned" =>
        result.status = IF errors = << >> THEN "completed"
                        ELSE "completed_with_errors"

\* positions of the sink invocations that reported progress 100
FullReports == { i \in DOMAIN calls : calls[i].progress = 100 }

\* C13 as stated: in a run with a sink, the sink is invoked with progress 100
\* exactly once, as its last invocation, on the success and the failure path.
C13_OnceAtEnd ==
    (pc \in {"returned", "raised"} /\ progress_callback # "None") =>
        FullReports = { Len(calls) }

\* C13 amended: the last invocation of the sink is a terminal report with
\* progress 100; progress 100 is also reported at every entry of
\* QualityCheck, and the failure report follows a 'completed' report that
\* raised.
C13_TerminalReport ==
    (pc \in {"returned", "raised"} /\ progress_callback # "None") =>
        /\ calls # << >>
        /\ calls[Len(calls)].progress = 100
        /\ calls[Len(calls)].step \in {"completed", "failed"}
        /\ calls[Len(calls)].step = "failed" =>
              /\ calls[Len(calls) - 1] = [progress |-> 100, step |-> "completed"]
              /\ Cardinality(FullReports) = Count("quality_check") + 2
        /\ calls[Len(calls)].step = "completed" =>
              Cardinality(FullReports) = Count("quality_check") + 1
        /\ (pc = "returned" /\ result.status = "failed") =>
              calls[Len(calls)].step = "failed"

\* a failed Result after two passes: four reports of progress 100
C13_Witness ==
    /\ pc = "returned"
    /\ progress_callback # "None"
    /\ result.status = "failed"
    /\ Count("quality_check") = 2
    /\ Cardinality(FullReports) = 4

\* C14: a sink that raises never changes the pipeline.  In the Index stage
\* every item was handed to the indexer, so only the sink can have raised:
\* the stage must end as without the exception; after the graph ended the
\* run must return the Result of the success path.
C14_SinkHarmless ==
    [][ /\ ( /\ pc = "update_knowledge_graph"
             /\ ~Get(metadata, "used_existing_docs", FALSE)
             /\ Len(indexed') = Len(indexed) + Len(web_extracted_contents) )
           => (errors' = errors /\ knowledge_graph_updated')
        /\ pc = "END" => (pc' = "returned" /\ result' = CompletedResult) ]_vars

\* C15: within a pass the progress values are non-decreasing, in
\* state.progress and in the values passed to the sink; progress decreases
\* only when the retry loop re-enters Discover, to the Discover weight 25.
C15_Monotone ==
    /\ [](\A i \in 1..(Len(calls) - 1) :
             calls[i + 1].progress < calls[i].progress =>
                calls[i + 1] = [progress |-> 25, step |-> "discovering_papers"])
    /\ [][ progress' < progress =>
              /\ pc = "discover_papers"
              /\ progress' = 25
              /\ Count("quality_check") >= 1 ]_vars

\* search_papers has returned to discover_papers_node, which has stored the
\* serialized papers
SearchReturned ==
    pc = EdgeTarget("discover_papers") /\ search_attempts > 0

\* x's sort key is not below y's: key(x) >= key(y)
KeyAtLeast(x, y) == ~key_less(sort_key(x), sort_key(y))

\* C16: the list search_papers returns is deduplicated: no two of its papers
\* have equal normalized titles, also when they were found in different
\* rounds.
C16_Deduplicated ==
    SearchReturned =>
        \A i, j \in DOMAIN all_papers :
            i # j => normalized_title(all_papers[i].title)
                        # normalized_title(all_papers[j].title)

\* C17: the list search_papers returns is sorted descending by
\* (citations, publication date), a missing citation count as 0 and a
\* missing date as the oldest date: every adjacent pair (x, y) has
\* key(x) >= key(y), also when the list was accumulated over several rounds.
C17_Sorted ==
    SearchReturned =>
        \A i \in 1..(Len(all_papers) - 1) :
            KeyAtLeast(all_papers[i], all_papers[i + 1])

\* the adapter tasks that failed in the step: their failure count went up
FailedNow(adapter) == adapter_failures'[adapter] = adapter_failures[adapter] + 1

\* what the adapter over the given stream returns in the round that ends
\* the step, when it succeeds
RoundResult(stream) ==
    search_source(stream, search_count(config_max, search_attempts') \div 2,
                  "papers").papers

\* C18: in a round in which exactly one adapter task fails, the other
\* adapter's search is neither cancelled nor discarded: the round's batch is
\* the concatenation of the results of the adapters that succeeded (the
\* working adapter's list), the round does not raise, and that batch goes
\* through deduplication, the existing-store filter and accumulation.
C18_PartialFailure ==
    [][ \A failed, working \in {"arxiv", "google_scholar"} :
           ( /\ pc = "search_papers"
             /\ search_attempts' = search_attempts + 1
             /\ failed # working
             /\ FailedNow(failed)
             /\ ~FailedNow(working) )
           => /\ round'.batch_papers = RoundResult(sources[working])
              /\ ~round'.raised
              /\ all_papers' =
                    add_new_papers(
                        filter_existing_papers(
                            deduplicate_papers(RoundResult(sources[working])),
                            VectorStoreManager(vector_store), {}),
                        1, all_papers) ]_vars

\* A first round in which arXiv failed and Google Scholar delivered two
\* papers of which one was accumulated.
C18_Witness ==
    /\ pc = "search_papers"
    /\ search_attempts = 1
    /\ adapter_failures = [arxiv |-> 1, google_scholar |-> 0]
    /\ Len(round.batch_papers) = 2
    /\ Len(all_papers) = 1

\* the entries of errors that discovery has added
DiscoveryErrors ==
    SelectSeq(errors, LAMBDA e : e # "Error in check_existing_docs_node")

\* C19: when one of the two adapters fails on every discovery round and the
\* other succeeds on every round, the papers discovery returns are the
\* working adapter's deduplicated output and the run's errors list holds one
\* entry per failed round.
C19_ScenarioD ==
    \A failed, working \in {"arxiv", "google_scholar"} :
        ( /\ SearchReturned
          /\ failed # working
          /\ adapter_failures[failed] = search_attempts
          /\ adapter_failures[working] = 0 )
        => /\ web_extracted_contents =
                 LET output == deduplicate_papers(sources[working])
                 IN  serializable_papers([i \in 1..Len(output) |-> output[i].url])
           /\ Len(DiscoveryErrors) = search_attempts

\* C20: when discovery returns no paper on every pass and every synthesis
\* has an empty summary (score 0), the run re-enters Discover exactly twice
\* (retry_count 1, then 2) and then ends with status completed_with_errors
\* and a non-empty errors list that holds a 'No synthesis result' or an
\* empty-summary diagnostic.
C20_ScenarioC ==
    ( /\ [](pc = "extract_content" => web_extracted_contents = << >>)
      /\ [](pc = "quality_check" =>
               /\ synthesis_result # None
               /\ synthesis_result.summary = 0
               /\ QualityScore(synthesis_result) = 0) )
    => [](pc = "returned" =>
             /\ Count("discover_papers") = MaxRetries + 1
             /\ metadata.retry_count = MaxRetries
             /\ result.status = "completed_with_errors"
             /\ result.errors # << >>
             /\ \E i \in DOMAIN result.errors :
                   result.errors[i] \in {"No synthesis result", "Empty summary"})

\* a direct call of deduplicate_papers has returned a list
Deduplicated ==
    pc \in {"deduplicated", "deduplicated_again"} /\ retval.kind = "list"

\* C21: for every list of papers P, dedupe(P) holds no two distinct entries
\* whose normalized titles (lowercased, trimmed, without the characters that
\* are neither alphanumeric nor whitespace) are equal.
C21_DedupUnique ==
    Deduplicated =>
        \A i, j \in DOMAIN retval.papers :
            i # j => normalized_title(retval.papers[i].title)
                        # normalized_title(retval.papers[j].title)

\* Two papers whose titles differ and normalize to the same title went in,
\* one came out.
C21_Witness ==
    /\ pc = "deduplicated"
    /\ Len(args.papers) = 2
    /\ args.papers[1].title # args.papers[2].title
    /\ normalized_title(args.papers[1].title) = normalized_title(args.papers[2].title)
    /\ retval.kind = "list"
    /\ Len(retval.papers) = 1

\* C22: for every list of papers P, dedupe(dedupe(P)) equals dedupe(P) as a
\* list: the same papers in the same order.
C22_DedupIdempotent ==
    [][ (pc = "deduplicated" /\ pc' = "deduplicated_again") =>
            retval' = retval ]_vars

\* Deduplication was applied again, to a result of two papers.
C22_Witness ==
    /\ pc = "deduplicated_again"
    /\ retval.kind = "list"
    /\ Len(retval.papers) = 2
    /\ args.papers = retval.papers

\* citations of a paper, a missing count as 0
CitationsOf(p) == p.citations

\* year of a paper's date, a missing date as the minimum date (year 1)
YearOf(p) == IF p.publication_date = None THEN 1 ELSE p.publication_date.year

\* (x.citations, x.date) >= (y.citations, y.date) lexicographically
KeyNotBelow(x, y) ==
    \/ CitationsOf(x) > CitationsOf(y)
    \/ CitationsOf(x) = CitationsOf(y) /\ YearOf(x) >= YearOf(y)

\* position of the first occurrence of a paper in a list
FirstIndex(ps, p) ==
    CHOOSE i \in DOMAIN ps : ps[i] = p /\ \A j \in 1..(i - 1) : ps[j] # p

\* C23: for every list of papers P, every adjacent pair (x, y) of dedupe(P)
\* has (x.citations, x.date) >= (y.citations, y.date) lexicographically, a
\* missing citation count as 0 and a missing date as the minimum date, and
\* papers of equal keys keep their relative input order (stable sort).
C23_SortOrder ==
    (pc = "deduplicated" /\ retval.kind = "list") =>
        /\ \A i \in 1..(Len(retval.papers) - 1) :
              KeyNotBelow(retval.papers[i], retval.papers[i + 1])
        /\ \A i, j \in DOMAIN retval.papers :
              ( /\ i < j
                /\ CitationsOf(retval.papers[i]) = CitationsOf(retval.papers[j])
                /\ YearOf(retval.papers[i]) = YearOf(retval.papers[j]) )
              => FirstIndex(args.papers, retval.papers[i])
                    < FirstIndex(args.papers, retval.papers[j])

\* Three papers came out in another order than they went in, two of them
\* with equal keys.
C23_Witness ==
    /\ pc = "deduplicated"
    /\ retval.kind = "list"
    /\ Len(retval.papers) = 3
    /\ retval.papers # args.papers
    /\ \E i \in 1..2 :
          /\ CitationsOf(retval.papers[i]) = CitationsOf(retval.papers[i + 1])
          /\ YearOf(retval.papers[i]) = YearOf(retval.papers[i + 1])

\* C30: for every list of papers P, no paper of dedupe(P) has a normalized
\* title of length 10 or less: such a paper is dropped even when its title
\* occurs only once in P.
C30_DedupFloor ==
    Deduplicated =>
        \A i \in DOMAIN retval.papers :
            Len(normalized_title(retval.papers[i].title)) > 10

\* The only paper of the list has a normalized title of 10 characters and
\* was dropped.
C30_Witness ==
    /\ pc = "deduplicated"
    /\ Len(args.papers) = 1
    /\ Len(normalized_title(args.papers[1].title)) = 10
    /\ retval = [kind |-> "list", papers |-> << >>]

\* C24: when QualityCheck runs with no synthesis result in the state it sets
\* quality_score to 0 and records the issue 'No synthesis result'; the four
\* threshold checks add nothing.
C24_NoSynthesis ==
    [][ (pc = "quality_check" /\ synthesis_result = None) =>
            /\ metadata'["quality_score"] = 0
            /\ metadata'["quality_issues"] = << "No synthesis result" >>
            /\ synthesis_result' = None ]_vars

\* QualityCheck has run on a state without synthesis result.
C24_Witness ==
    /\ pc = "should_continue"
    /\ stages[Len(stages)] = "quality_check"
    /\ synthesis_result = None
    /\ metadata["quality_score"] = 0
    /\ metadata["quality_issues"] = << "No synthesis result" >>

\* the six stages of the graph
StageNodes ==
    { "check_existing_docs", "discover_papers", "extract_content",
      "update_knowledge_graph", "synthesize_results", "quality_check" }

\* the node or router that follows a stage
StageSuccessor(node) ==
    CASE node = "check_existing_docs" -> "should_discover_papers"
      [] node = "quality_check" -> "should_continue"
      [] OTHER -> EdgeTarget(node)

\* The step is a stage in which an exception was raised.  A failure of the
\* store's search is caught inside the store, which hands [] to the stage.
RaisedInStage ==
    /\ pc \in StageNodes
    /\ faults' > faults
    /\ pc = "check_existing_docs" => docs_with_scores' # << >>

\* C25: an exception raised inside a stage is caught by the stage, exactly
\* one error string is appended to errors and the workflow goes on to the
\* stage's normal successor; errors is append-only.
C25_StageErrors ==
    [][ /\ Len(errors') >= Len(errors)
        /\ SubSeq(errors', 1, Len(errors)) = errors
        /\ RaisedInStage =>
              /\ Len(errors') = Len(errors) + 1
              /\ pc' = StageSuccessor(pc) ]_vars

\* the interpolated reports of a loop, by the step they carry
SubReports(step) == { i \in DOMAIN calls : calls[i].step = step }

\* C26: every interpolated sub-progress value reported inside the Extract
\* loop lies between the Extract weight 45 and the Index weight 60, every
\* one reported inside the Index loop between the Index weight 60 and the
\* Synthesize weight 80, and within one loop the values do not decrease.
C26_SubProgress ==
    /\ \A i \in SubReports("extracting_content (i/total)") :
          /\ calls[i].progress >= progress_steps["extracting_content"]
          /\ calls[i].progress <= progress_steps["updating_knowledge_graph"]
    /\ \A i \in SubReports("updating_knowledge_graph (i/total)") :
          /\ calls[i].progress >= progress_steps["updating_knowledge_graph"]
          /\ calls[i].progress <= progress_steps["synthesizing_results"]
    /\ \A i \in 1..(Len(calls) - 1) :
          ( /\ calls[i].step = calls[i + 1].step
            /\ calls[i].step \in { "extracting_content (i/total)",
                                   "updating_knowledge_graph (i/total)" } )
          => calls[i].progress <= calls[i + 1].progress

\* a step of search_papers that runs a round
RunsRound == search_attempts' # search_attempts /\ pc = "search_papers"

\* the number of the round a step runs
RoundNumber == search_attempts + 1

\* C27 (guard): a round runs only while fewer than max_results papers are
\* accumulated and its number is at most 5, and it is the next round.
C27_RoundGuard ==
    [][ RunsRound =>
            /\ Len(all_papers) < config_max
            /\ RoundNumber <= 5
            /\ search_attempts' = RoundNumber ]_vars

\* C27 (resources): round n uses min(max_results * n * 2, 75), sleeps 2 * n
\* seconds and gives each of the two adapters half of the search count.
C27_RoundResources ==
    [][ RunsRound =>
            /\ round'.search_count =
                  (IF config_max * RoundNumber * 2 < 75
                   THEN config_max * RoundNumber * 2 ELSE 75)
            /\ round'.sleep = 2 * RoundNumber
            /\ round'.budgets = << round'.search_count \div 2,
                                   round'.search_count \div 2 >> ]_vars

\* C27 (termination): every step taken inside search_papers is either the
\* next round, which uses up one of the 5 attempts, or the return, taken
\* once the loop's guard fails; no step stays in the loop without counting.
C27_RoundVariant ==
    [][ pc = "search_papers" =>
            \/ /\ pc' = "search_papers"
               /\ max_attempts - search_attempts' < max_attempts - search_attempts
               /\ max_attempts - search_attempts' >= 0
            \/ /\ pc' = EdgeTarget("discover_papers")
               /\ ~search_continues ]_vars

Urls(ps) == { ps[i].url : i \in DOMAIN ps }

\* xs is a prefix of ys
IsPrefix(xs, ys) == Len(xs) <= Len(ys) /\ SubSeq(ys, 1, Len(xs)) = xs

\* C28: the accumulated papers never hold one url twice; a round keeps the
\* papers accumulated before it in place and appends only papers of its
\* batch whose url was not accumulated.
C28_UrlUnique ==
    /\ [](\A i, j \in DOMAIN all_papers :
             all_papers[i].url = all_papers[j].url => i = j)
    /\ [][ RunsRound =>
              /\ IsPrefix(all_papers, all_papers')
              /\ \A k \in (Len(all_papers) + 1)..Len(all_papers') :
                    /\ all_papers'[k].url \notin Urls(all_papers)
                    /\ \E b \in DOMAIN round'.batch_papers :
                          round'.batch_papers[b] = all_papers'[k] ]_vars

\* with Google Scholar alone answering, and never failing, the first round
\* accumulated its first paper, and the second round brought it again
C28_Witness ==
    /\ pc = "search_papers"
    /\ search_attempts = 2
    /\ adapter_failures = NoRounds
    /\ sources.arxiv = << >>
    /\ sources.google_scholar # << >>
    /\ round # None
    /\ \E i \in DOMAIN all_papers : all_papers[i] = sources.google_scholar[1]
    /\ \E b \in DOMAIN round.batch_papers :
          round.batch_papers[b] = sources.google_scholar[1]
    /\ Len(all_papers) >= 2

\* the store of the call reported the value as present under the key: a
\* store is configured, its lookup by the key did not fail, and one of its
\* documents carries the value
Reported(key, value) ==
    /\ args.vector_store # None
    /\ key \notin args.failing
    /\ \E i \in DOMAIN args.vector_store.docs :
          /\ key \in DOMAIN args.vector_store.docs[i]
          /\ args.vector_store.docs[i][key] = value

\* the lookup by the paper's url hits
UrlHit(p) == p.url # 0 /\ Reported("paper_id", p.url)

\* the lookup by the paper's doi hits
DoiHit(p) == p.doi # 0 /\ Reported("doi", p.doi)

\* the papers the spec's rule removes
Removed(p) == UrlHit(p) \/ (~UrlHit(p) /\ DoiHit(p))

\* C29: filter_existing_papers returns, in order, exactly the papers that
\* neither the url lookup nor, after a url miss, the doi lookup reports; a
\* failing lookup is a miss; without a store the list comes back whole; no
\* returned paper has a url or a doi the store reported.
C29_StoreFilter ==
    pc = "filtered" =>
        /\ retval.papers = SelectSeq(args.papers, LAMBDA p : ~Removed(p))
        /\ args.vector_store = None => retval.papers = args.papers
        /\ \A i \in DOMAIN retval.papers :
              /\ ~UrlHit(retval.papers[i])
              /\ ~DoiHit(retval.papers[i])

\* the url lookup failed, and of two papers with a url the store does not
\* answer for, the one with the stored doi was removed and the other kept
C29_Witness ==
    /\ pc = "filtered"
    /\ args.failing = {"paper_id"}
    /\ Len(args.papers) = 2
    /\ args.papers[1].url = 1
    /\ args.papers[1].doi = 7
    /\ args.papers[2].url = 1
    /\ args.papers[2].doi = 8
    /\ retval.papers = << args.papers[2] >>

\* the index of the first paper of ps with the normalized title of ps[i]
FirstWithTitle(ps, i) ==
    CHOOSE j \in DOMAIN ps :
        /\ normalized_title(ps[j].title) = normalized_title(ps[i].title)
        /\ \A k \in 1..(j - 1) :
              normalized_title(ps[k].title) # normalized_title(ps[i].title)

\* C31: for every normalized title longer than 10 characters that occurs in
\* P, dedupe(P) holds exactly one paper with that title, and it is the first
\* paper of P that has it, whatever the citations and dates of the later ones.
C31_FirstOccurrence ==
    (pc = "deduplicated" /\ retval.kind = "list") =>
        \A i \in DOMAIN args.papers :
            Len(normalized_title(args.papers[i].title)) > 10 =>
                /\ Cardinality({ k \in DOMAIN retval.papers :
                        normalized_title(retval.papers[k].title)
                            = normalized_title(args.papers[i].title) }) = 1
                /\ \E k \in DOMAIN retval.papers :
                        retval.papers[k] = args.papers[FirstWithTitle(args.papers, i)]

\* of two papers with one normalized title the first went in with fewer
\* citations and an older date than the second, and it alone came out
C31_Witness ==
    /\ pc = "deduplicated"
    /\ retval.kind = "list"
    /\ Len(args.papers) = 2
    /\ normalized_title(args.papers[1].title) = normalized_title(args.papers[2].title)
    /\ Len(normalized_title(args.papers[1].title)) > 10
    /\ args.papers[1].citations < args.papers[2].citations
    /\ retval.papers = << args.papers[1] >>

\* the items of the call the extractor returned a content for
Extracted == { i \in DOMAIN args.items :
                  args.items[i].url # 0 /\ args.outcome[i] = "content" }

\* the k-th extracted item, in input order
NthExtracted(k) ==
    CHOOSE i \in Extracted : Cardinality({ j \in Extracted : j <= i }) = k

\* C32: the Extract loop skips a paper without url, without content or whose
\* extraction raises, and goes on; its output is the extracted papers in
\* input order, up to the 100th, and no paper's failure adds an error.
C32_ExtractOutput ==
    pc = "extracted" =>
        /\ Len(retval.contents) = Min(Cardinality(Extracted), 100)
        /\ \A k \in DOMAIN retval.contents :
              retval.contents[k].url = args.items[NthExtracted(k)].url
        /\ errors = << >>

\* C33: whenever skip_discovery is false, also after a failed check of the
\* existing documents, Synthesize is called with the contents extracted in
\* the current pass (is_web_extracted = true), not with the state's papers.
C33_SynthesizeFresh ==
    [][ (pc = "synthesize_results" /\ ~skip_discovery) =>
            /\ synth_call'.is_web_extracted
            /\ synth_call'.papers = web_extracted_contents ]_vars

\* a pass of the retry loop of a run that decided to skip discovery
RetryAfterSkip == skip_discovery /\ Get(metadata, "retry_count", 0) > 0

\* C34: in a retry pass of a run that used skip_discovery = true, the papers
\* found by the re-entered Discover are the input of the stages after it:
\* Extract extracts them, Index stores the contents and Synthesize is called
\* with the contents, not with the existing documents alone.
C34_RetryUsesDiscovered ==
    [][ RetryAfterSkip =>
            /\ pc = "extract_content" => current_step' = "extracting_content"
            /\ pc = "update_knowledge_graph" =>
                  current_step' = "updating_knowledge_graph"
            /\ pc = "synthesize_results" =>
                  /\ synth_call'.is_web_extracted
                  /\ synth_call'.papers = web_extracted_contents ]_vars

\* a Discover step of a run that did not skip discovery, whose search returned
DiscoveryReturned ==
    /\ pc = "discover_papers"
    /\ ~skip_discovery
    /\ errors' = errors

\* C35: papers_found of a completed Result is the number of papers the run
\* worked from: the number of distinct existing documents when discovery was
\* skipped, the number of papers discovery returned when it was not (the
\* count goes into the Result through the state's metadata).
C35_PapersFound ==
    /\ []((result # None /\ result.status # "failed") =>
             /\ result.papers_found = Get(metadata, "papers_found", 0)
             /\ skip_discovery =>
                   result.papers_found
                      = Cardinality(DistinctRelevantIds(docs_with_scores)))
    /\ [][ DiscoveryReturned =>
              Get(metadata', "papers_found", 0) = Len(web_extracted_contents') ]_vars

\* C36: search_papers never returns more than max_results papers, whatever
\* the adapters return and however many rounds it runs.
C36_AtMostMaxResults ==
    SearchReturned => Len(all_papers) <= config_max

\* every run has ended
AllRunsEnded == \A r \in Runs : tasks[r].at = ContinueEdges("end")

\* C37: with two runs on the shared workflow instance, a session is closed
\* only by the run that opened it (so never by another run while its opener
\* is still inside the context), and when the runs have ended no session
\* that was opened is left unclosed.
C37_SessionOwnership ==
    /\ \A s \in DOMAIN client_sessions :
          client_sessions[s].closed_by \in {0, client_sessions[s].opened_by}
    /\ AllRunsEnded =>
          \A s \in DOMAIN client_sessions : client_sessions[s].closed_by # 0

\* the changes of a request's status the registry may make
StatusMoves ==
    { << "started", "running" >>, << "running", "completed" >>,
      << "running", "completed with errors" >> }

\* C38: a registered request stays registered and its status moves only
\* started -> running -> completed | completed with errors; whenever the
\* status is "completed" the stored results carry every field the results
\* endpoint reads, so that the endpoint builds its response, whatever the
\* status of the workflow's own result ("failed" included).
C38_Registry ==
    /\ [][ \A id \in DOMAIN request_status :
              /\ id \in DOMAIN request_status'
              /\ \/ request_status'[id].status = request_status[id].status
                 \/ << request_status[id].status, request_status'[id].status >>
                       \in StatusMoves ]_vars
    /\ [](\A id \in DOMAIN request_status :
             request_status[id].status = "completed" =>
                ResultsRead \subseteq DOMAIN request_status[id].results)
    /\ [](retval # None => retval.kind # "KeyError")

====
